---- MODULE Spec2Model ----
(***************************************************************************)
(* A state-machine model of the Prose tree-walking interpreter             *)
(* (src/src/prose_lang/interpreter.py): the Environment scope chain,       *)
(* closures, the statement handlers for blocks, loops, calls and error     *)
(* handling, and the exceptions (Stop / Skip / Return / RuntimeError_)     *)
(* that unwind the handlers' activations.                                  *)
(*                                                                         *)
(* The program being interpreted is not fixed: in every state the next     *)
(* statement of the body that is executing is chosen nondeterministically, *)
(* so the reachable states cover every program up to the bounds below.     *)
(* One action is one handler step of the interpreter.                      *)
(***************************************************************************)
EXTENDS Integers, Sequences, FiniteSets, TLC

\* ------------------------------------------------------------------ bounds
MaxStmts == 4
MaxNum == 2
MaxCount == 2
MaxWorkerStmts == 1
MaxUnit == 2
MaxMag == 3
MaxDen == 2
MaxLen == 4

\* --------------------------------------------------------- program constants
WhileCap == 10000000

\* ------------------------------------------------------------------- names
Names == {"x", "f", "g", "h", "a", "p", "q", "self"}
FuncNames == {"f", "h", "a"}
ClassNames == {"A", "B", "C"}
MethodNames == {"m", "am"}

VARIABLES
  envs,       \* heap of Environment objects; envs[1] is Interpreter.global_env
  functions,  \* Interpreter.functions: the names of the global function table
  stack,      \* activations of the statement handlers, innermost last
  exc,        \* the exception in flight (k = "none" when there is none)
  ret,        \* the value the last finished _call_function returned
  outcome,    \* what run_source made of the run
  left,       \* how many statements the program may still execute
  lst,        \* the elements of the list object the program works on
  classes,    \* Interpreter.classes: class name -> ClassDef (or NoClass)
  methods,    \* Interpreter.methods: class name -> names of its MethodDefs
  instances,  \* heap of Instance objects (class_name, properties)
  threads,    \* the AsyncThread objects started so far
  obs         \* history: what the last step did (read by the properties only)

oop == <<classes, methods, instances>>

vars == <<envs, functions, stack, exc, ret, outcome, left, lst, classes,
          methods, instances, threads, obs>>

\* ------------------------------------------------------------------ values
\* Every runtime value is a record of one shape: t is its kind, n a number
\* (or the node kind of a closure), e the Environment a closure captured,
\* s a text (or the AST node of a closure).
Absent == [t |-> "absent", n |-> 0, e |-> 0, s |-> ""]
Nothing == [t |-> "nothing", n |-> 0, e |-> 0, s |-> ""]
Num(k) == [t |-> "num", n |-> k, e |-> 0, s |-> ""]
Text(str) == [t |-> "text", n |-> 0, e |-> 0, s |-> str]
Native == [t |-> "native", n |-> 0, e |-> 0, s |-> ""]
Bool(b) == [t |-> "bool", n |-> IF b THEN 1 ELSE 0, e |-> 0, s |-> ""]

\* A Python float: the fraction n/d in lowest terms, d > 0 (the floats of
\* the model are dyadic, so float arithmetic on them is exact)
Float(n, d) == [t |-> "float", n |-> n, e |-> d, s |-> ""]
ListValue == [t |-> "list", n |-> 0, e |-> 0, s |-> ""]
DictValue == [t |-> "dict", n |-> 0, e |-> 0, s |-> ""]

\* A Closure object over a LambdaExpr whose body_expr is the Identifier
\* `name`, and one over the FunctionDef called `name`; e is Closure.env.
\* Field n of a lambda is history: the number `name` stood for when the
\* closure was made (0 for none); only the properties read it.
Lambda(name, env, was) == [t |-> "lambda", n |-> was, e |-> env, s |-> name]
FunClosure(name, env) == [t |-> "funclosure", n |-> 0, e |-> env, s |-> name]

\* A FunctionDef node as Interpreter.functions holds it (it has no env).
FuncDef(name) == [t |-> "funcdef", n |-> 0, e |-> 0, s |-> name]

ClosureKinds == {"lambda", "funclosure"}

\* hasattr(val, "node") or callable(val) or hasattr(val, "params")
IsCallable(v) == v.t \in ClosureKinds \cup {"native", "funcdef"}

\* ------------------------------------------------------------ Environment
NoVars == [nm \in Names |-> Absent]

NewEnvironment(parent) == [vars |-> NoVars, parent |-> parent]

\* Environment.get: the value, or Absent where the code raises RuntimeError_
RECURSIVE Get(_, _, _)
Get(E, i, name) ==
  IF E[i].vars[name] # Absent THEN E[i].vars[name]
  ELSE IF E[i].parent # 0 THEN Get(E, E[i].parent, name)
  ELSE Absent

\* The scope Environment.assign writes: the first scope of the chain that
\* holds the name, else the scope whose parent is None.
RECURSIVE AssignScope(_, _, _)
AssignScope(E, i, name) ==
  IF E[i].vars[name] # Absent THEN i
  ELSE IF E[i].parent # 0 THEN AssignScope(E, E[i].parent, name)
  ELSE i

AssignLocalOnly(E, i, name, v) == [E EXCEPT ![i].vars[name] = v]

Assign(E, i, name, v) == [E EXCEPT ![AssignScope(E, i, name)].vars[name] = v]

SetLocal(E, i, name, v) == [E EXCEPT ![i].vars[name] = v]

\* A ClassDef node (own property names in order, parent name or "" for
\* none); NoClass where Interpreter.classes has no entry.
ClassDef(props, parent) == [defined |-> TRUE, props |-> props, parent |-> parent]
NoClass == [defined |-> FALSE, props |-> <<>>, parent |-> ""]

\* ----------------------------------------------------------------- frames
LoopKinds == {"repeat", "while", "foreach", "range"}

Frame(kind, env, benv) ==
  [kind |-> kind, env |-> env, benv |-> benv, i |-> 0, n |-> 0,
   items |-> <<>>, visited |-> <<>>, fresh |-> {}, callee |-> Absent,
   var |-> "", from |-> 0, to |-> 0, step |-> 0]

Top == stack[Len(stack)]
Cur == Top.benv
Pop(S) == SubSeq(S, 1, Len(S) - 1)
CallKinds == {"call", "method"}

\* The call activations of a stack, innermost first
RECURSIVE CallSites(_, _)
CallSites(S, j) ==
  IF j = 0 THEN <<>>
  ELSE IF S[j].kind \in CallKinds
  THEN <<[kind |-> S[j].kind, at |-> j]>> \o CallSites(S, j - 1)
  ELSE CallSites(S, j - 1)

\* An exception object: its class k, its value or message v and its
\* plain_stack ps. Field from is history: the call activations that
\* enclosed the statement that failed; only the properties read it.
NoExc == [k |-> "none", v |-> Absent, ps |-> <<>>, from |-> <<>>]
RaiseAt(kind, v, S) ==
  [k |-> kind, v |-> v, ps |-> <<>>, from |-> CallSites(S, Len(S))]
Raise(kind, v) == RaiseAt(kind, v, stack)

PlainStackNone(e, fr, j) == e

\* except RuntimeError_ as e: e.plain_stack.append(<name> at line <line>)
PlainStack(e, fr, j) ==
  IF e.k = "Error"
  THEN [e EXCEPT !.ps = Append(@, [kind |-> fr.kind, at |-> j])]
  ELSE e

\* The body on top of the stack is executing (no exception is in flight).
Running == outcome = "running" /\ exc.k = "none" /\ Len(stack) > 0 /\ Top.benv # 0

\* The next statement of that body executes.
Statement == Running /\ left > 0 /\ left' = left - 1

\* A function, class or method definition executes.  The statement budget counts the
\* statements after the definitions the program begins with.
Definition ==
  /\ Running
  /\ IF left = MaxStmts /\ Top.kind = "top" THEN left' = left
     ELSE left > 0 /\ left' = left - 1

Obs(op) ==
  [op |-> op, name |-> "", val |-> Absent, env |-> 0, names |-> {}, n |-> 0,
   frame |-> Frame("", 0, 0)]

\* An Environment object lives while something refers to it: an activation,
\* a closure bound in an older scope, or a value in flight.
Referenced(E, S, keep, k) ==
  \/ \E j \in 1..Len(S) : S[j].env = k \/ S[j].benv = k
  \/ \E j \in 1..(k - 1) : \E nm \in Names :
       E[j].vars[nm].t \in ClosureKinds /\ E[j].vars[nm].e = k
  \/ \E v \in keep : v.t \in ClosureKinds /\ v.e = k
  \/ \E j \in 1..Len(threads) : threads[j].env = k

RECURSIVE Collect(_, _, _)
Collect(E, S, keep) ==
  IF Len(E) > 1 /\ ~Referenced(E, S, keep, Len(E))
  THEN Collect(SubSeq(E, 1, Len(E) - 1), S, keep)
  ELSE E

\* ------------------------------------------------------------------- Init
Init ==
  /\ envs = <<NewEnvironment(0)>>
  /\ functions = {}
  /\ stack = <<Frame("top", 1, 1)>>
  /\ exc = NoExc
  /\ ret = Absent
  /\ outcome = "running"
  /\ left = MaxStmts
  /\ lst = <<>>
  /\ classes = [c \in ClassNames |-> NoClass]
  /\ methods = [c \in ClassNames |-> {}]
  /\ instances = <<>>
  /\ threads = <<>>
  /\ obs = Obs("init")

\* The activation on top enters a fresh child scope of `parent` as its body.
PushBlock(kind, parent) ==
  /\ envs' = Append(envs, NewEnvironment(parent))
  /\ stack' = Append(stack, Frame(kind, Cur, Len(envs) + 1))

\* The activation on top returns or raises: it leaves the stack and the
\* scopes nothing refers to any more are dropped.
PopFrame(keep) ==
  /\ stack' = Pop(stack)
  /\ envs' = Collect(envs, Pop(stack), keep)

\* Names the top block declares fresh: bound in no scope of its chain.
MarkFresh(name) ==
  IF Top.kind # "top" /\ Get(envs, Cur, name) = Absent
  THEN [stack EXCEPT ![Len(stack)].fresh = @ \cup {name}]
  ELSE stack

\* ----------------------------------------------------------- _exec_let
ExecLet(name, k) ==
  /\ Statement
  /\ envs' = Assign(envs, Cur, name, Num(k))
  /\ stack' = MarkFresh(name)
  /\ obs' = [Obs("let") EXCEPT !.name = name, !.val = Num(k), !.env = Cur]
  /\ UNCHANGED <<functions, exc, ret, outcome, lst, oop, threads>>

\* Let name be <literal>: a number, a text, true, nothing, an empty list,
\* an empty dictionary
Literals == {Num(1), Text("abc"), Bool(TRUE), Nothing, ListValue, DictValue}

ExecLetLiteral(name, v) ==
  /\ Statement
  /\ envs' = Assign(envs, Cur, name, v)
  /\ stack' = MarkFresh(name)
  /\ obs' = [Obs("let") EXCEPT !.name = name, !.val = v, !.env = Cur]
  /\ UNCHANGED <<functions, exc, ret, outcome, lst, oop, threads>>

\* Let name be a function that gives back `read`: evaluate(LambdaExpr)
\* builds Closure(node, env) and _exec_let assigns it.
MakeClosure(read, env) == Lambda(read, env, Get(envs, env, read).n)

ExecLetLambda(name, read) ==
  /\ Statement
  /\ envs' = Assign(envs, Cur, name, MakeClosure(read, Cur))
  /\ stack' = MarkFresh(name)
  /\ obs' = [Obs("closure") EXCEPT !.name = name, !.env = Cur,
                                   !.val = Get(envs, Cur, read)]
  /\ UNCHANGED <<functions, exc, ret, outcome, lst, oop, threads>>

\* execute_stmt on a FunctionDef: self.functions[node.name] = node
ExecFunctionDef(fname) ==
  /\ Definition
  /\ functions' = functions \cup {fname}
  /\ obs' = Obs("define")
  /\ UNCHANGED <<envs, stack, exc, ret, outcome, lst, oop, threads>>

\* _exec_import of specific names of a native library: env.assign(name, val)
ExecImport(name) ==
  /\ Statement
  /\ envs' = Assign(envs, Cur, name, Native)
  /\ stack' = MarkFresh(name)
  /\ obs' = Obs("import")
  /\ UNCHANGED <<functions, exc, ret, outcome, lst, oop, threads>>

\* ------------------------------------------------------------ _exec_if
ExecIf ==
  /\ Statement
  /\ PushBlock("if", Cur)
  /\ obs' = Obs("if")
  /\ UNCHANGED <<functions, exc, ret, outcome, lst, oop, threads>>

\* The arm ran to its end; _exec_if returns.
IfEnd ==
  /\ Running
  /\ Top.kind = "if"
  /\ PopFrame({})
  /\ obs' = [Obs("blockend") EXCEPT !.env = Top.env, !.names = Top.fresh]
  /\ UNCHANGED <<functions, exc, ret, outcome, left, lst, oop, threads>>

\* _exec_if has no except clause: whatever the arm raises leaves it.
IfRaise ==
  /\ outcome = "running"
  /\ exc.k # "none"
  /\ Top.kind = "if"
  /\ PopFrame({exc.v})
  /\ obs' = Obs("raise")
  /\ UNCHANGED <<functions, exc, ret, outcome, left, lst, oop, threads>>

\* -------------------------------------------------------- _exec_repeat
ExecRepeat(count) ==
  /\ Statement
  /\ stack' = Append(stack, [Frame("repeat", Cur, 0) EXCEPT !.n = count])
  /\ obs' = Obs("repeat")
  /\ UNCHANGED <<envs, functions, exc, ret, outcome, lst, oop, threads>>

\* for _ in range(int(count)): the next iteration starts in a fresh scope
RepeatIter ==
  /\ outcome = "running" /\ exc.k = "none"
  /\ Top.kind = "repeat" /\ Top.benv = 0
  /\ Top.i < Top.n
  /\ envs' = Append(envs, NewEnvironment(Top.env))
  /\ stack' = [stack EXCEPT ![Len(stack)].i = @ + 1,
                            ![Len(stack)].benv = Len(envs) + 1,
                            ![Len(stack)].fresh = {}]
  /\ obs' = Obs("iter")
  /\ UNCHANGED <<functions, exc, ret, outcome, left, lst, oop, threads>>

\* the range is exhausted: _exec_repeat returns
RepeatDone ==
  /\ outcome = "running" /\ exc.k = "none"
  /\ Top.kind = "repeat" /\ Top.benv = 0
  /\ Top.i >= Top.n
  /\ PopFrame({})
  /\ obs' = [Obs("loopend") EXCEPT !.name = "repeat", !.frame = Top,
                                   !.names = {"exhausted"}]
  /\ UNCHANGED <<functions, exc, ret, outcome, left, lst, oop, threads>>

\* The body of the iteration ran to its end.
RepeatBodyEnd ==
  /\ Running
  /\ Top.kind = "repeat"
  /\ stack' = [stack EXCEPT ![Len(stack)].benv = 0]
  /\ envs' = Collect(envs, stack', {})
  /\ obs' = [Obs("blockend") EXCEPT !.env = Top.env, !.names = Top.fresh]
  /\ UNCHANGED <<functions, exc, ret, outcome, left, lst, oop, threads>>

\* What a loop handler does with an exception of kind k raised by its body:
\* "continue" with the next iteration, "break" out of the loop, "raise" it
\* to the caller unchanged, or "wrap" it into a RuntimeError_.
RepeatOnStopContinues(k) ==
  IF k \in {"Skip", "Stop"} THEN "continue" ELSE "raise"

RepeatOn(k) ==
  IF k = "Skip" THEN "continue" ELSE IF k = "Stop" THEN "break" ELSE "raise"

\* A loop activation disposes of the exception its body raised.
LoopCatch(kind, how) ==
  /\ outcome = "running"
  /\ exc.k # "none"
  /\ Top.kind = kind
  /\ obs' = [Obs("loopcatch") EXCEPT !.name = kind, !.frame = Top,
                                     !.names = {exc.k}, !.env = Len(stack)]
  /\ IF how = "continue"
     THEN /\ stack' = [stack EXCEPT ![Len(stack)].benv = 0]
          /\ envs' = Collect(envs, stack', {})
          /\ exc' = NoExc
     ELSE /\ PopFrame({exc.v})
          /\ exc' = IF how = "break" THEN NoExc
                    ELSE IF how = "wrap"
                    THEN [Raise("Error", Text("Error in range loop"))
                            EXCEPT !.from = exc.from]
                    ELSE exc
  /\ UNCHANGED <<functions, ret, outcome, left, lst, oop, threads>>

RepeatCatch == LoopCatch("repeat", RepeatOn(exc.k))

\* ----------------------------------- StopStmt, SkipStmt, GiveBackStmt
ExecStop ==
  /\ Statement
  /\ exc' = Raise("Stop", Absent)
  /\ obs' = [Obs("stop") EXCEPT !.env = Len(stack)]
  /\ UNCHANGED <<envs, functions, stack, ret, outcome, lst, oop, threads>>

ExecSkip ==
  /\ Statement
  /\ exc' = Raise("Skip", Absent)
  /\ obs' = [Obs("skip") EXCEPT !.env = Len(stack)]
  /\ UNCHANGED <<envs, functions, stack, ret, outcome, lst, oop, threads>>

ExecGiveBack(k) ==
  /\ Statement
  /\ exc' = Raise("Return", Num(k))
  /\ obs' = [Obs("giveback") EXCEPT !.env = Len(stack), !.val = Num(k)]
  /\ UNCHANGED <<envs, functions, stack, ret, outcome, lst, oop, threads>>

\* ThrowStmt, or any statement that fails: a RuntimeError_ is raised
ExecThrow ==
  /\ Statement
  /\ exc' = Raise("Error", Text("thrown"))
  /\ obs' = [Obs("throw") EXCEPT !.env = Len(stack)]
  /\ UNCHANGED <<envs, functions, stack, ret, outcome, lst, oop, threads>>

\* ------------------------------------------------------------ AsyncThread
\* An AsyncThread object: the call frame `en` its body runs against, how
\* far run() has come, thread_result and thread_error, where the statement
\* it is executing stands (pc), the value that statement read (tmp) and
\* how many statements the body still has (left).
Thread(en) ==
  [env |-> en, state |-> "started", result |-> Nothing, error |-> NoExc,
   pc |-> "read", tmp |-> Absent, left |-> MaxWorkerStmts]

\* The value that refers to the AsyncThread object threads[k]
Task(k) == [t |-> "task", n |-> k, e |-> 0, s |-> ""]

\* ------------------------------------------------------- _call_function
\* evaluate(Identifier): the variable, else the global function of that name
\* wrapped in a Closure over global_env, else the name itself as a text
EvalIdentifier(E, F, i, name) ==
  IF Get(E, i, name) # Absent THEN Get(E, i, name)
  ELSE IF name \in F THEN FunClosure(name, 1)
  ELSE Text(name)

ResolveGlobalFirst(E, F, i, name) ==
  IF name \in F THEN FuncDef(name)
  ELSE IF IsCallable(Get(E, i, name)) THEN Get(E, i, name)
  ELSE Absent

\* Steps 1 and 2 of _call_function: a callable variable of the caller's
\* chain, else self.functions[name], else nothing (func is None)
ResolveCallee(E, F, i, name) ==
  IF IsCallable(Get(E, i, name)) THEN Get(E, i, name)
  ELSE IF name \in F THEN FuncDef(name)
  ELSE Absent

ParentEnvGlobal(func) == 1

\* parent_env = func.env if hasattr(func, "env") else self.global_env
ParentEnv(func) == IF func.t \in ClosureKinds THEN func.e ELSE 1

\* A ParamDef: its name and its default_expr, the Identifier `default`
\* ("" where default_expr is None).
ParamDef(name, default) == [name |-> name, default |-> default]

\* The parameter lists of the FunctionDefs the program defines: f takes
\* none, h takes p and q, q with the default expression x.
FunctionParams(fname) ==
  IF fname = "h" THEN <<ParamDef("p", ""), ParamDef("q", "x")>> ELSE <<>>

\* The parameter list of a LambdaExpr of the program: the lambda that gives
\* back q takes q with the default expression x, every other takes none.
LambdaParams(read) == IF read = "q" THEN <<ParamDef("q", "x")>> ELSE <<>>

\* node.params of the callee
ParamsOf(func) ==
  IF func.t = "lambda" THEN LambdaParams(func.s) ELSE FunctionParams(func.s)

\* min_args = sum(1 for p in node.params if p.default_expr is None)
MinArgs(P) == Cardinality({j \in 1..Len(P) : P[j].default = ""})

ArityOkAlways(P, nargs) == TRUE

\* not (len(arg_vals) < min_args or len(arg_vals) > len(node.params))
ArityOk(P, nargs) == ~(nargs < MinArgs(P) \/ nargs > Len(P))

\* arg_vals: the j-th argument expression is the literal j
ArgVals(nargs) == [j \in 1..nargs |-> Num(j)]

DefaultEnvCaller(parent, caller) == caller

\* self.evaluate(param.default_expr, parent_env): the scope the default
\* expression is evaluated in
DefaultEnv(parent, caller) == parent

\* The value parameter j takes: the j-th argument, else its default
ParamValue(E, F, P, j, args, parent, caller) ==
  IF j <= Len(args) THEN args[j]
  ELSE IF P[j].default = "" THEN Absent
  ELSE EvalIdentifier(E, F, DefaultEnv(parent, caller), P[j].default)

\* for i, param in enumerate(params): func_env.set_local(param.name, ...)
RECURSIVE BindParams(_, _, _, _, _, _, _, _)
BindParams(E, F, fenv, P, j, args, parent, caller) ==
  IF j > Len(P) THEN E
  ELSE BindParams(SetLocal(E, fenv, P[j].name,
                           ParamValue(E, F, P, j, args, parent, caller)),
                  F, fenv, P, j + 1, args, parent, caller)

CallLambdaSnapshot(E, F, func, args, caller) == Num(func.n)

\* func_env = Environment(parent=parent_env) with the parameters bound;
\* return self.evaluate(body, func_env) with body the Identifier func.s
CallLambda(E, F, func, args, caller) ==
  EvalIdentifier(BindParams(Append(E, NewEnvironment(ParentEnv(func))), F,
                            Len(E) + 1, ParamsOf(func), 1, args,
                            ParentEnv(func), caller),
                 F, Len(E) + 1, func.s)

\* FunctionDef.is_async as parse_define sets it: the program defines the
\* function a with `Define an async function called a`.
FunctionIsAsync(fname) == fname = "a"

\* getattr(node, "is_async", False); a LambdaExpr has no such field
NodeIsAsync(func) ==
  func.t \in {"funcdef", "funclosure"} /\ FunctionIsAsync(func.s)

\* A call by name with nargs argument expressions.
ExecCall(name, nargs) ==
  /\ Statement
  /\ LET func == ResolveCallee(envs, functions, Cur, name)
         seen == [Obs("call") EXCEPT !.name = name, !.val = func, !.env = Cur]
     IN
     IF func = Absent
     THEN \* "I could not find a function called ..."
          /\ exc' = Raise("Error", Text("function not found"))
          /\ obs' = seen
          /\ UNCHANGED <<envs, stack, ret, threads>>
     ELSE IF func.t = "native"
     THEN \* return func(*arg_vals), or its failure as a RuntimeError_
          /\ obs' = [seen EXCEPT !.n = nargs]
          /\ \/ /\ ret' = Nothing
                /\ exc' = NoExc
             \/ /\ exc' = Raise("Error", Text("native function failed"))
                /\ ret' = ret
          /\ UNCHANGED <<envs, stack, threads>>
     ELSE IF ~ArityOk(ParamsOf(func), nargs)
     THEN \* "... needs N argument(s), but I was given ..."
          /\ exc' = Raise("Error", Text("arity"))
          /\ obs' = [seen EXCEPT !.n = nargs]
          /\ UNCHANGED <<envs, stack, ret, threads>>
     ELSE IF func.t = "lambda"
     THEN \* return self.evaluate(body, func_env)
          /\ ret' = CallLambda(envs, functions, func, ArgVals(nargs), Cur)
          /\ obs' = [seen EXCEPT !.n = nargs]
          /\ UNCHANGED <<envs, stack, exc, threads>>
     ELSE IF NodeIsAsync(func)
     THEN \* t = AsyncThread(self, body, func_env); t.start(); return t
          /\ envs' = BindParams(Append(envs, NewEnvironment(ParentEnv(func))),
                                functions, Len(envs) + 1, ParamsOf(func), 1,
                                ArgVals(nargs), ParentEnv(func), Cur)
          /\ threads' = Append(threads, Thread(Len(envs) + 1))
          /\ ret' = Task(Len(threads) + 1)
          /\ obs' = [seen EXCEPT !.n = nargs]
          /\ UNCHANGED <<stack, exc>>
     ELSE \* bind the parameters in func_env; self.execute(body, func_env)
          /\ envs' = BindParams(Append(envs, NewEnvironment(ParentEnv(func))),
                                functions, Len(envs) + 1, ParamsOf(func), 1,
                                ArgVals(nargs), ParentEnv(func), Cur)
          /\ stack' = Append(stack, [Frame("call", Cur, Len(envs) + 1)
                                       EXCEPT !.callee = func])
          /\ obs' = [seen EXCEPT !.n = nargs]
          /\ UNCHANGED <<exc, ret, threads>>
  /\ UNCHANGED <<functions, outcome, lst, oop>>

\* _exec_let_result: Let var be the result of calling name, for a callee
\* that is an async function without parameters: the call returns the
\* thread object at once and env.assign binds it.
ExecLetResult(var, name) ==
  /\ Statement
  /\ LET func == ResolveCallee(envs, functions, Cur, name)
     IN /\ func # Absent
        /\ NodeIsAsync(func)
        /\ ParamsOf(func) = <<>>
        /\ envs' = Assign(Append(envs, NewEnvironment(ParentEnv(func))), Cur,
                          var, Task(Len(threads) + 1))
        /\ threads' = Append(threads, Thread(Len(envs) + 1))
        /\ ret' = Task(Len(threads) + 1)
        /\ obs' = [Obs("spawn") EXCEPT !.name = name, !.val = func, !.env = Cur,
                                      !.n = Len(threads) + 1]
  /\ stack' = MarkFresh(var)
  /\ UNCHANGED <<functions, exc, outcome, lst, oop>>

\* The body ran to its end without give back: return None
CallEnd ==
  /\ Running
  /\ Top.kind = "call"
  /\ PopFrame({})
  /\ ret' = Nothing
  /\ obs' = [Obs("blockend") EXCEPT !.env = Top.env, !.names = Top.fresh]
  /\ UNCHANGED <<functions, exc, outcome, left, lst, oop, threads>>

\* except ReturnException: return ret.value; except RuntimeError_: note the
\* call site and re-raise; Stop and Skip are not caught.
CallCatch ==
  /\ outcome = "running"
  /\ exc.k # "none"
  /\ Top.kind = "call"
  /\ PopFrame({exc.v})
  /\ IF exc.k = "Return"
     THEN exc' = NoExc /\ ret' = exc.v
     ELSE exc' = PlainStack(exc, Top, Len(stack)) /\ ret' = ret
  /\ obs' = [Obs("callcatch") EXCEPT !.names = {exc.k}, !.val = exc.v]
  /\ UNCHANGED <<functions, outcome, left, lst, oop, threads>>

\* ------------------------------------------------- run_source (prose.py)
\* interp.execute(ast, interp.global_env) returned
TopEnd ==
  /\ Running
  /\ Top.kind = "top"
  /\ stack' = <<>>
  /\ outcome' = "ok"
  /\ obs' = Obs("end")
  /\ UNCHANGED <<envs, functions, exc, ret, left, lst, oop, threads>>

\* The except clauses of run_source; a ReturnException is caught by none.
TopCatch ==
  /\ outcome = "running"
  /\ exc.k # "none"
  /\ Top.kind = "top"
  /\ stack' = <<>>
  /\ outcome' = CASE exc.k = "Error" -> "runtime_error"
                  [] exc.k = "Stop" -> "stop_usage"
                  [] exc.k = "Skip" -> "skip_usage"
                  [] OTHER -> "uncaught"
  /\ obs' = Obs("end")
  /\ UNCHANGED <<envs, functions, exc, ret, left, lst, oop, threads>>

\* ------------------------------------------------------------ _apply_op
Abs(k) == IF k < 0 THEN -k ELSE k

RECURSIVE Gcd(_, _)
Gcd(a, b) == IF b = 0 THEN a ELSE Gcd(b, a % b)

\* The fraction n/d, d # 0, in lowest terms with a positive denominator
Fraction(n, d) ==
  LET g == Gcd(Abs(n), Abs(d))
      sg == IF d < 0 THEN -1 ELSE 1
  IN [n |-> sg * (n \div g), d |-> sg * (d \div g)]

\* evaluate(NumberLiteral): int(v) if v == int(v) else v
NumberLiteral(n, d) ==
  IF Fraction(n, d).d = 1 THEN Num(Fraction(n, d).n)
  ELSE Float(Fraction(n, d).n, Fraction(n, d).d)

\* What Python's arithmetic operators accept: int, float, and bool as 0/1
PyNumeric(v) == v.t \in {"num", "float", "bool"}
Numer(v) == v.n
Denom(v) == IF v.t = "float" THEN v.e ELSE 1
IsFloat(v) == v.t = "float"

\* right == 0
IsZeroNever(v) == FALSE
IsZero(v) == PyNumeric(v) /\ Numer(v) = 0

\* The Python number with the value f: a float if either operand was one
PyNumber(f, float) == IF float THEN Float(f.n, f.d) ELSE Num(f.n)

Value(v) == [k |-> "value", v |-> v]
Failure(kind, msg) == [k |-> kind, v |-> Text(msg)]

\* Python's + - * / % on two numbers; a zero divisor raises
\* ZeroDivisionError, / is true division, % takes the sign of the divisor
PyArith(op, l, r) ==
  LET a == Numer(l)
      b == Denom(l)
      c == Numer(r)
      d == Denom(r)
      fl == IsFloat(l) \/ IsFloat(r)
      X == a * d
      Y == c * b
      floormod == IF Y > 0 THEN X % Y ELSE -((-X) % (-Y))
  IN CASE op = "plus" -> Value(PyNumber(Fraction(a * d + c * b, b * d), fl))
       [] op = "minus" -> Value(PyNumber(Fraction(a * d - c * b, b * d), fl))
       [] op = "times" -> Value(PyNumber(Fraction(a * c, b * d), fl))
       [] op = "divided_by" ->
            IF c = 0 THEN Failure("ZeroDivisionError", "division by zero")
            ELSE Value(PyNumber(Fraction(a * d, b * c), TRUE))
       [] OTHER ->
            IF c = 0 THEN Failure("ZeroDivisionError", "modulo by zero")
            ELSE Value(PyNumber(Fraction(floormod, b * d), fl))

\* _clean: int(v) if v is a float and v == int(v)
Clean(v) == IF v.t = "float" /\ v.e = 1 THEN Num(v.n) ELSE v

\* _assert_num: isinstance(val, (int, float)) and not isinstance(val, bool)
IsNum(v) == v.t \in {"num", "float"}

\* str(v) as far as the properties need it: an int has digits only, a
\* float always has a decimal point
Str(v) ==
  CASE v.t = "num" -> "n"
    [] v.t = "float" -> "n.n"
    [] v.t = "text" -> v.s
    [] v.t = "bool" -> "True"
    [] v.t = "nothing" -> "None"
    [] OTHER -> "obj"

Ops == {"plus", "minus", "times", "divided_by", "modulo"}

ApplyOp(op, l, r) ==
  IF op = "plus"
  THEN IF l.t = "list" /\ r.t = "list" THEN Value(ListValue)
       ELSE IF l.t = "text" \/ r.t = "text"
       THEN Value(Text(Str(l) \o " " \o Str(r)))
       ELSE IF PyNumeric(l) /\ PyNumeric(r) THEN PyArith(op, l, r)
       ELSE Failure("TypeError", "unsupported operand")
  ELSE IF ~IsNum(l) \/ ~IsNum(r) THEN Failure("Error", "not a number")
  ELSE IF op \in {"divided_by", "modulo"} /\ IsZero(r)
  THEN Failure("Error", "zero")
  ELSE LET res == PyArith(op, l, r)
       IN IF res.k = "value" THEN Value(Clean(res.v)) ELSE res

\* The operand expressions of the programs: literals and the variable x
Ident(name) == [t |-> "ident", n |-> 0, e |-> 0, s |-> name]

Atoms ==
  {NumberLiteral(0, 1), NumberLiteral(2, 1), NumberLiteral(1, 2),
   NumberLiteral(3, 2), Bool(TRUE), Bool(FALSE), Nothing, Text("a"),
   ListValue, Ident("x")}

EvalAtom(a) ==
  IF a.t = "ident" THEN EvalIdentifier(envs, functions, Cur, a.s) ELSE a

\* The numbers a program of the model computes stay within these bounds,
\* and a joined text is not joined again
InRange(lv, rv, v) ==
  /\ v.t \in {"num", "float"} => Abs(Numer(v)) <= MaxMag /\ Denom(v) <= MaxDen
  /\ v.t = "text" => \A w \in {lv, rv} : w.t = "text" => w = Text("a")

\* Let var be <l> <op> <r>: evaluate(BinaryOp), then env.assign
ExecLetOp(var, op, l, r) ==
  /\ Statement
  /\ LET lv == EvalAtom(l)
         rv == EvalAtom(r)
         res == ApplyOp(op, lv, rv)
         seen == [Obs("letop") EXCEPT !.name = op, !.env = Cur,
                                      !.frame.items = <<lv, rv>>]
     IN IF res.k = "value"
        THEN /\ InRange(lv, rv, res.v)
             /\ envs' = Assign(envs, Cur, var, res.v)
             /\ stack' = MarkFresh(var)
             /\ obs' = [seen EXCEPT !.val = res.v]
             /\ exc' = exc
        ELSE /\ exc' = Raise(res.k, res.v)
             /\ obs' = seen
             /\ UNCHANGED <<envs, stack>>
  /\ UNCHANGED <<functions, ret, outcome, lst, oop, threads>>

\* ------------------------------------------------------- Lexer.tokenize
\* A source text is a sequence of characters: a period, a minus, a slash,
\* a double quote, a letter, a digit, a newline.
Chars == {".", "-", "/", "q", "a", "1", "n"}

RECURSIVE SourcesOfLen(_)
SourcesOfLen(n) ==
  IF n = 0 THEN {<<>>}
  ELSE {Append(u, Text(c)) : u \in SourcesOfLen(n - 1), c \in Chars}

Sources == UNION {SourcesOfLen(n) : n \in 0..MaxLen}

\* Token(type, value, line); the model keeps the span from..to of the
\* source the token was read from in place of value and line
Token(type, from, to) == [t |-> type, n |-> from, e |-> to, s |-> ""]

Is(src, p, c) == p \in 1..Len(src) /\ src[p].s = c

\* The state of Lexer(source) before tokenize(): pos is frame field i (the
\* number of characters consumed), tokens is frame field visited
InitLexer ==
  /\ envs = <<NewEnvironment(0)>>
  /\ functions = {}
  /\ \E src \in Sources :
       stack = <<[Frame("lexer", 1, 0) EXCEPT !.items = src]>>
  /\ exc = NoExc
  /\ ret = Absent
  /\ outcome = "running"
  /\ left = MaxStmts
  /\ lst = <<>>
  /\ classes = [c \in ClassNames |-> NoClass]
  /\ methods = [c \in ClassNames |-> {}]
  /\ instances = <<>>
  /\ threads = <<>>
  /\ obs = Obs("init")

\* skip_whitespace: the first position from p on that holds no newline
RECURSIVE SkipWhitespace(_, _)
SkipWhitespace(src, p) ==
  IF Is(src, p, "n") THEN SkipWhitespace(src, p + 1) ELSE p

\* while self.pos < len(self.source) and self.source[self.pos] != '\n'
RECURSIVE SkipLine(_, _)
SkipLine(src, p) ==
  IF p <= Len(src) /\ ~Is(src, p, "n") THEN SkipLine(src, p + 1) ELSE p

\* The position of the closing quote of the string opened before p, or
\* Len(src) + 1
RECURSIVE ClosingQuote(_, _)
ClosingQuote(src, p) ==
  IF p <= Len(src) /\ ~Is(src, p, "q") THEN ClosingQuote(src, p + 1) ELSE p

\* read_number: digits, and a period that a digit follows
RECURSIVE ReadNumber(_, _)
ReadNumber(src, p) ==
  IF Is(src, p, "1") THEN ReadNumber(src, p + 1)
  ELSE IF Is(src, p, ".") /\ Is(src, p + 1, "1") THEN ReadNumber(src, p + 1)
  ELSE p

\* read_word: letters and digits
RECURSIVE ReadWord(_, _)
ReadWord(src, p) ==
  IF Is(src, p, "a") \/ Is(src, p, "1") THEN ReadWord(src, p + 1) ELSE p

EllipsisAtInner(src, p) ==
  p + 3 <= Len(src) /\ Is(src, p + 1, ".") /\ Is(src, p + 2, ".")

\* self.pos + 2 < len(self.source) and the next two characters are periods
\* (pos counts from 0, p from 1)
EllipsisAt(src, p) ==
  p + 2 <= Len(src) /\ Is(src, p + 1, ".") /\ Is(src, p + 2, ".")

DashCommentAt(src, p) ==
  p + 2 <= Len(src) /\ Is(src, p + 1, "-") /\ Is(src, p + 2, "-")

SlashCommentAt(src, p) == p + 1 <= Len(src) /\ Is(src, p + 1, "/")

Lexing == outcome = "running" /\ Len(stack) = 1 /\ Top.kind = "lexer"
LexSource == Top.items
LexPos == SkipWhitespace(LexSource, Top.i + 1)

Consume(to, toks) ==
  stack' = [stack EXCEPT ![1].i = to - 1, ![1].visited = @ \o toks]

\* One iteration of the while loop of tokenize
LexStep ==
  /\ Lexing
  /\ LexPos <= Len(LexSource)
  /\ LET src == LexSource
         p == LexPos
         ch == src[p].s
         One(type) == Consume(p + 1, <<Token(type, p, p)>>)
     IN
     CASE ch = "." ->
            /\ IF EllipsisAt(src, p) THEN Consume(p + 3, <<>>) ELSE One("PERIOD")
            /\ outcome' = outcome
       [] ch = "-" ->
            /\ IF DashCommentAt(src, p) THEN Consume(SkipLine(src, p), <<>>)
               ELSE One("MINUS")
            /\ outcome' = outcome
       [] ch = "/" ->
            /\ IF SlashCommentAt(src, p) THEN Consume(SkipLine(src, p), <<>>)
               ELSE One("SLASH")
            /\ outcome' = outcome
       [] ch = "q" ->
            LET close == ClosingQuote(src, p + 1)
            IN IF close > Len(src)
               THEN \* raise LexerError("Unclosed string.")
                    /\ outcome' = "lexer_error"
                    /\ stack' = [stack EXCEPT ![1].visited = <<>>]
               ELSE /\ Consume(close + 1, <<Token("STRING_QUOTED", p, close)>>)
                    /\ outcome' = outcome
       [] ch = "1" ->
            /\ Consume(ReadNumber(src, p),
                       <<Token("NUMBER", p, ReadNumber(src, p) - 1)>>)
            /\ outcome' = outcome
       [] OTHER ->
            /\ Consume(ReadWord(src, p + 1),
                       <<Token("WORD", p, ReadWord(src, p + 1) - 1)>>)
            /\ outcome' = outcome
  /\ obs' = Obs("lex")
  /\ UNCHANGED <<envs, functions, exc, ret, left, lst, oop, threads>>

\* The loop is left: tokens.append(Token(EOF, "", self.line)); return tokens
LexEnd ==
  /\ Lexing
  /\ LexPos > Len(LexSource)
  /\ stack' = [stack EXCEPT ![1].i = Len(LexSource),
                            ![1].visited = Append(@, Token("EOF", 0, 0))]
  /\ outcome' = "lexed"
  /\ obs' = Obs("lexed")
  /\ UNCHANGED <<envs, functions, exc, ret, left, lst, oop, threads>>

\* ------------------------------------------- run_source, run_interactive
\* A source unit is a sequence of sentences. Each is one of the statements
\* below, or holds a character the lexer cannot read, or is a sentence the
\* grammar does not accept.
Sentences == {"let", "define", "stop", "skip", "throw", "badchar", "badgrammar"}

RECURSIVE UnitsOfLen(_)
UnitsOfLen(n) ==
  IF n = 0 THEN {<<>>}
  ELSE {Append(u, w) : u \in UnitsOfLen(n - 1), w \in Sentences}

Units == UNION {UnitsOfLen(n) : n \in 0..MaxUnit}

\* Lexer(source).tokenize(): the tokens of the whole unit, or LexerError
Tokenize(unit) ==
  IF \E j \in 1..Len(unit) : unit[j] = "badchar"
  THEN [ok |-> FALSE, tokens |-> <<>>]
  ELSE [ok |-> TRUE, tokens |-> unit]

\* The statement node the parser builds for one sentence
Stmt(w, j) == [t |-> w, n |-> j, e |-> 0, s |-> "x"]

RECURSIVE ParsePrefix(_, _)
ParsePrefix(tokens, j) ==
  IF j > Len(tokens) \/ tokens[j] = "badgrammar" THEN <<>>
  ELSE <<Stmt(tokens[j], j)>> \o ParsePrefix(tokens, j + 1)

ParseLenient(tokens) == [ok |-> TRUE, ast |-> ParsePrefix(tokens, 1)]

\* Parser(tokens).parse(): the statements of the whole unit, or ParseError
Parse(tokens) ==
  IF \E j \in 1..Len(tokens) : tokens[j] = "badgrammar"
  THEN [ok |-> FALSE, ast |-> <<>>]
  ELSE [ok |-> TRUE, ast |-> [j \in 1..Len(tokens) |-> Stmt(tokens[j], j)]]

SourceText(unit) == [j \in 1..Len(unit) |-> Text(unit[j])]

\* The state in which run_interactive reads its next entry, and in which
\* the command line has not loaded a file yet.
InitSession ==
  /\ envs = <<NewEnvironment(0)>>
  /\ functions = {}
  /\ stack = <<>>
  /\ exc = NoExc
  /\ ret = Absent
  /\ outcome = "prompt"
  /\ left = MaxStmts
  /\ lst = <<>>
  /\ classes = [c \in ClassNames |-> NoClass]
  /\ methods = [c \in ClassNames |-> {}]
  /\ instances = <<>>
  /\ threads = <<>>
  /\ obs = Obs("init")

\* Lex and parse the unit; start interp.execute(ast, interp.global_env) in
\* a frame of the given kind only if both succeeded.
Load(kind, unit) ==
  /\ outcome = "prompt"
  /\ left >= Len(unit)
  /\ LET lexed == Tokenize(unit)
         parsed == Parse(lexed.tokens)
     IN IF lexed.ok /\ parsed.ok
        THEN /\ stack' = <<[Frame(kind, 1, 1) EXCEPT !.items = parsed.ast,
                              !.visited = SourceText(unit), !.n = left]>>
             /\ outcome' = "running"
             /\ obs' = [Obs("load") EXCEPT !.name = kind, !.n = Len(unit)]
        ELSE \* print the lexer or parse error
             /\ obs' = [Obs("syntax") EXCEPT !.name = kind, !.n = Len(unit)]
             /\ outcome' = IF kind = "top" THEN "syntax_error" ELSE "prompt"
             /\ stack' = stack
  /\ UNCHANGED <<envs, functions, exc, ret, left, lst, oop, threads>>

\* run_source: a fresh Interpreter runs the file
LoadFile(unit) == obs.op = "init" /\ Load("top", unit)

\* run_interactive: the session's Interpreter runs the entry
Entry(unit) == unit # <<>> /\ Load("entry", unit)

UnitKinds == {"top", "entry"}

\* for stmt in statements: self.execute_stmt(stmt, env)
UnitPc == Top.n - left + 1

UnitStmt ==
  /\ Running
  /\ Top.kind \in UnitKinds
  /\ UnitPc <= Len(Top.items)
  /\ LET stmt == Top.items[UnitPc]
     IN CASE stmt.t = "let" -> ExecLet(stmt.s, stmt.n)
          [] stmt.t = "define" -> ExecFunctionDef("f")
          [] stmt.t = "stop" -> ExecStop
          [] stmt.t = "skip" -> ExecSkip
          [] OTHER -> ExecThrow

SourceEnd == Len(stack) > 0 /\ UnitPc > Len(Top.items) /\ TopEnd

\* The entry ran to its end: back to the prompt
EntryEnd ==
  /\ Running
  /\ Top.kind = "entry"
  /\ UnitPc > Len(Top.items)
  /\ stack' = <<>>
  /\ outcome' = "prompt"
  /\ obs' = Obs("entryend")
  /\ UNCHANGED <<envs, functions, exc, ret, left, lst, oop, threads>>

\* The except clauses of run_interactive: RuntimeError_ is printed and the
\* loop goes on; anything else leaves run_interactive and ends the process
\* with a traceback.
InteractiveCatches(k) == k = "Error"

EntryCatch ==
  /\ outcome = "running"
  /\ exc.k # "none"
  /\ Top.kind = "entry"
  /\ stack' = <<>>
  /\ outcome' = IF InteractiveCatches(exc.k) THEN "prompt" ELSE "crashed"
  /\ exc' = IF InteractiveCatches(exc.k) THEN NoExc ELSE exc
  /\ obs' = [Obs("entrycatch") EXCEPT !.names = {exc.k}]
  /\ UNCHANGED <<envs, functions, ret, left, lst, oop, threads>>

\* --------------------------------------------------------- _exec_while
ExecWhile ==
  /\ Statement
  /\ stack' = Append(stack, Frame("while", Cur, 0))
  /\ obs' = Obs("while")
  /\ UNCHANGED <<envs, functions, exc, ret, outcome, lst, oop, threads>>

WhileOverNever(count) == FALSE

\* if count > 10_000_000: raise RuntimeError_
WhileOver(count) == count > WhileCap

\* The condition held: count += 1, then the cap check, then the body in a
\* fresh scope.  Frame field i is `count`, n counts the bodies begun.
WhileIter ==
  /\ outcome = "running" /\ exc.k = "none"
  /\ Top.kind = "while" /\ Top.benv = 0
  /\ left > 0 /\ left' = left - 1
  /\ IF WhileOver(Top.i + 1)
     THEN /\ PopFrame({})
          /\ exc' = Raise("Error", Text("repeating this loop for far too long"))
          /\ obs' = [Obs("loopend") EXCEPT !.name = "while", !.frame = Top,
                                           !.names = {"cap"}]
     ELSE /\ envs' = Append(envs, NewEnvironment(Top.env))
          /\ stack' = [stack EXCEPT ![Len(stack)].i = @ + 1,
                                    ![Len(stack)].n = @ + 1,
                                    ![Len(stack)].benv = Len(envs) + 1,
                                    ![Len(stack)].fresh = {}]
          /\ exc' = exc
          /\ obs' = Obs("iter")
  /\ UNCHANGED <<functions, ret, outcome, lst, oop, threads>>

\* k iterations in a row, each passing the cap check and running a body
\* that changes nothing and ends normally (the checks are monotone in count)
WhileSpin(k) ==
  /\ outcome = "running" /\ exc.k = "none"
  /\ Top.kind = "while" /\ Top.benv = 0
  /\ left > 0 /\ left' = left - 1
  /\ ~WhileOver(Top.i + k)
  /\ stack' = [stack EXCEPT ![Len(stack)].i = @ + k, ![Len(stack)].n = @ + k]
  /\ obs' = Obs("iter")
  /\ UNCHANGED <<envs, functions, exc, ret, outcome, lst, oop, threads>>

\* The condition is false: _exec_while returns
WhileDone ==
  /\ outcome = "running" /\ exc.k = "none"
  /\ Top.kind = "while" /\ Top.benv = 0
  /\ PopFrame({})
  /\ obs' = [Obs("loopend") EXCEPT !.name = "while", !.frame = Top,
                                   !.names = {"exhausted"}]
  /\ UNCHANGED <<functions, exc, ret, outcome, left, lst, oop, threads>>

WhileBodyEnd ==
  /\ Running
  /\ Top.kind = "while"
  /\ stack' = [stack EXCEPT ![Len(stack)].benv = 0]
  /\ envs' = Collect(envs, stack', {})
  /\ obs' = [Obs("blockend") EXCEPT !.env = Top.env, !.names = Top.fresh]
  /\ UNCHANGED <<functions, exc, ret, outcome, left, lst, oop, threads>>

WhileOn(k) ==
  IF k = "Skip" THEN "continue" ELSE IF k = "Stop" THEN "break" ELSE "raise"

WhileCatch == LoopCatch("while", WhileOn(exc.k))

\* ------------------------------------- AddToListStmt, RemoveFromListStmt
ExecAdd(v) ==
  /\ Statement
  /\ lst' = Append(lst, v)
  /\ obs' = Obs("add")
  /\ UNCHANGED <<envs, functions, stack, exc, ret, outcome, oop, threads>>

\* lst.pop(idx), or "out of range"
ExecRemove(idx) ==
  /\ Statement
  /\ IF idx < 1 \/ idx > Len(lst)
     THEN exc' = Raise("Error", Text("out of range")) /\ lst' = lst
     ELSE /\ lst' = SubSeq(lst, 1, idx - 1) \o SubSeq(lst, idx + 1, Len(lst))
          /\ exc' = exc
  /\ obs' = Obs("remove")
  /\ UNCHANGED <<envs, functions, stack, ret, outcome, oop, threads>>

\* ------------------------------------------------------ _exec_for_each
\* items = list(iterable); child_env = Environment(parent=env).  Frame
\* field env is child_env, items the copy.
ExecForEach(var) ==
  /\ Statement
  /\ envs' = Append(envs, NewEnvironment(Cur))
  /\ stack' = Append(stack, [Frame("foreach", Len(envs) + 1, 0)
                               EXCEPT !.items = lst, !.var = var])
  /\ obs' = Obs("foreach")
  /\ UNCHANGED <<functions, exc, ret, outcome, lst, oop, threads>>

ForEachSourceLive(f, l) == l

\* The sequence `for item in items` walks: the copy, not the list object
ForEachSource(f, l) == f.items

ForEachBindLocal(E, i, name, v) == SetLocal(E, i, name, v)

\* child_env.assign(node.var, item)
ForEachBind(E, i, name, v) == Assign(E, i, name, v)

\* child_env.assign(node.var, item), then the body in a fresh scope
ForEachIter ==
  /\ outcome = "running" /\ exc.k = "none"
  /\ Top.kind = "foreach" /\ Top.benv = 0
  /\ Top.i < Len(ForEachSource(Top, lst))
  /\ LET item == ForEachSource(Top, lst)[Top.i + 1]
     IN /\ envs' = Append(ForEachBind(envs, Top.env, Top.var, Num(item)),
                          NewEnvironment(Top.env))
        /\ stack' = [stack EXCEPT ![Len(stack)].i = @ + 1,
                                  ![Len(stack)].benv = Len(envs) + 1,
                                  ![Len(stack)].visited = Append(@, item),
                                  ![Len(stack)].fresh = {}]
  /\ obs' = Obs("iter")
  /\ UNCHANGED <<functions, exc, ret, outcome, left, lst, oop, threads>>

ForEachDone ==
  /\ outcome = "running" /\ exc.k = "none"
  /\ Top.kind = "foreach" /\ Top.benv = 0
  /\ Top.i >= Len(ForEachSource(Top, lst))
  /\ PopFrame({})
  /\ obs' = [Obs("loopend") EXCEPT !.name = "foreach", !.frame = Top,
                                   !.names = {"exhausted"}]
  /\ UNCHANGED <<functions, exc, ret, outcome, left, lst, oop, threads>>

ForEachBodyEnd ==
  /\ Running
  /\ Top.kind = "foreach"
  /\ stack' = [stack EXCEPT ![Len(stack)].benv = 0]
  /\ envs' = Collect(envs, stack', {})
  /\ obs' = [Obs("blockend") EXCEPT !.env = Top.env, !.names = Top.fresh]
  /\ UNCHANGED <<functions, exc, ret, outcome, left, lst, oop, threads>>

ForEachOn(k) ==
  IF k = "Skip" THEN "continue" ELSE IF k = "Stop" THEN "break" ELSE "raise"

ForEachCatch == LoopCatch("foreach", ForEachOn(exc.k))

\* ---------------------------------------------------- _exec_range_loop
\* Python's range(start, stop, step) for step # 0, as a sequence
RangeLen(start, stop, step) ==
  IF step > 0 /\ start < stop THEN ((stop - start - 1) \div step) + 1
  ELSE IF step < 0 /\ start > stop THEN ((start - stop - 1) \div (0 - step)) + 1
  ELSE 0

PyRange(start, stop, step) ==
  [j \in 1..RangeLen(start, stop, step) |-> start + (j - 1) * step]

RangeStopExclusive(to) == to

\* stop = int(self.evaluate(node.to_expr, env)) + 1  # inclusive
RangeStop(to) == to + 1

\* For each var from `from` to `to` step `step`; range() refuses step 0
\* with a ValueError, which the handler's outer except makes a RuntimeError_
ExecRange(var, from, to, step) ==
  /\ Statement
  /\ IF step = 0
     THEN /\ exc' = Raise("Error", Text("Error in range loop"))
          /\ stack' = stack
     ELSE /\ stack' = Append(stack,
               [Frame("range", Cur, 0)
                  EXCEPT !.items = PyRange(from, RangeStop(to), step),
                         !.var = var, !.from = from, !.to = to, !.step = step])
          /\ exc' = exc
  /\ obs' = Obs("range")
  /\ UNCHANGED <<envs, functions, ret, outcome, lst, oop, threads>>

\* loop_env = Environment(parent=env); loop_env.set_local(var_name, i)
RangeIter ==
  /\ outcome = "running" /\ exc.k = "none"
  /\ Top.kind = "range" /\ Top.benv = 0
  /\ Top.i < Len(Top.items)
  /\ envs' = Append(envs, SetLocal(<<NewEnvironment(Top.env)>>, 1, Top.var,
                                   Num(Top.items[Top.i + 1]))[1])
  /\ stack' = [stack EXCEPT ![Len(stack)].i = @ + 1,
                            ![Len(stack)].benv = Len(envs) + 1,
                            ![Len(stack)].visited = Append(@, Top.items[Top.i + 1]),
                            ![Len(stack)].fresh = {}]
  /\ obs' = Obs("iter")
  /\ UNCHANGED <<functions, exc, ret, outcome, left, lst, oop, threads>>

RangeDone ==
  /\ outcome = "running" /\ exc.k = "none"
  /\ Top.kind = "range" /\ Top.benv = 0
  /\ Top.i >= Len(Top.items)
  /\ PopFrame({})
  /\ obs' = [Obs("loopend") EXCEPT !.name = "range", !.frame = Top,
                                   !.names = {"exhausted"}]
  /\ UNCHANGED <<functions, exc, ret, outcome, left, lst, oop, threads>>

RangeBodyEnd ==
  /\ Running
  /\ Top.kind = "range"
  /\ stack' = [stack EXCEPT ![Len(stack)].benv = 0]
  /\ envs' = Collect(envs, stack', {})
  /\ obs' = [Obs("blockend") EXCEPT !.env = Top.env, !.names = Top.fresh]
  /\ UNCHANGED <<functions, exc, ret, outcome, left, lst, oop, threads>>

\* except SkipException: continue; except StopException: break; and around
\* the whole loop, except Exception as e: raise RuntimeError_(...)
RangeOn(k) ==
  IF k = "Skip" THEN "continue" ELSE IF k = "Stop" THEN "break" ELSE "wrap"

RangeCatch == LoopCatch("range", RangeOn(exc.k))

\* ----------------------------------------------------- _exec_try_catch
\* self.execute(node.try_body, Environment(parent=env))
ExecTry ==
  /\ Statement
  /\ PushBlock("try", Cur)
  /\ obs' = Obs("try")
  /\ UNCHANGED <<functions, exc, ret, outcome, lst, oop, threads>>

TryEnd ==
  /\ Running
  /\ Top.kind = "try"
  /\ PopFrame({})
  /\ obs' = [Obs("blockend") EXCEPT !.env = Top.env, !.names = Top.fresh]
  /\ UNCHANGED <<functions, exc, ret, outcome, left, lst, oop, threads>>

\* except (RuntimeError_, Exception): every exception class of the
\* interpreter derives from Exception, the three signals included
TryCatches(k) == k \in {"Error", "Stop", "Skip", "Return", "TypeError"}

\* The exception the protected body raised reaches the try statement:
\* catch_env = Environment(parent=env); catch_env.set_local(error_var, msg);
\* the handler body runs in catch_env.  Otherwise the exception leaves.
ProtectedRaise(kind, handler, catches, errvar) ==
  /\ outcome = "running"
  /\ exc.k # "none"
  /\ Top.kind = kind
  /\ IF catches
     THEN /\ envs' = Append(Collect(envs, Pop(stack), {}),
                 SetLocal(<<NewEnvironment(Top.env)>>, 1, errvar, Text("message"))[1])
          /\ stack' = Append(Pop(stack),
                 Frame(handler, Top.env, Len(Collect(envs, Pop(stack), {})) + 1))
          /\ exc' = NoExc
     ELSE /\ PopFrame({exc.v})
          /\ exc' = exc
  /\ obs' = [Obs("protected") EXCEPT !.name = kind, !.names = {exc.k},
                                     !.n = IF catches THEN 1 ELSE 0]
  /\ UNCHANGED <<functions, ret, outcome, left, lst, oop, threads>>

TryCatch(errvar) == ProtectedRaise("try", "handle", TryCatches(exc.k), errvar)

\* The handler body ran to its end, or raised: the statement is left.
HandlerEnd(kind) ==
  /\ Running
  /\ Top.kind = kind
  /\ PopFrame({})
  /\ obs' = [Obs("blockend") EXCEPT !.env = Top.env, !.names = Top.fresh]
  /\ UNCHANGED <<functions, exc, ret, outcome, left, lst, oop, threads>>

HandlerRaise(kind) ==
  /\ outcome = "running"
  /\ exc.k # "none"
  /\ Top.kind = kind
  /\ PopFrame({exc.v})
  /\ obs' = Obs("raise")
  /\ UNCHANGED <<functions, exc, ret, outcome, left, lst, oop, threads>>

HandleEnd == HandlerEnd("handle")
HandleRaise == HandlerRaise("handle")

\* ------------------------------------------------------- _exec_attempt
\* self.execute(node.try_body, env): the protected body runs in env itself
ExecAttempt ==
  /\ Statement
  /\ stack' = Append(stack, Frame("attempt", Cur, Cur))
  /\ obs' = Obs("attempt")
  /\ UNCHANGED <<envs, functions, exc, ret, outcome, lst, oop, threads>>

AttemptEnd ==
  /\ Running
  /\ Top.kind = "attempt"
  /\ PopFrame({})
  /\ obs' = Obs("attemptend")
  /\ UNCHANGED <<functions, exc, ret, outcome, left, lst, oop, threads>>

\* except RuntimeError_ as e
AttemptCatches(k) == k = "Error"

AttemptCatch(errvar) ==
  ProtectedRaise("attempt", "rescue", AttemptCatches(exc.k), errvar)

RescueEnd == HandlerEnd("rescue")
RescueRaise == HandlerRaise("rescue")

\* -------------------------------------------------- AsyncThread.run
\* The body of the async function is a sequence of statements
\* `Set x to x plus 1.`, at most MaxWorkerStmts of them, ended by a give
\* back, a throw or the end of the body. Evaluating the right-hand side
\* and env.assign are two steps of the thread; other threads run between.
WorkerLive(k) == k \in 1..Len(threads) /\ threads[k].state = "started"

\* evaluate(Identifier x) in the worker's frame; an unknown name ends the
\* worker with the RuntimeError_ stored in thread_error
WorkerRead(k) ==
  /\ WorkerLive(k)
  /\ threads[k].pc = "read"
  /\ threads[k].left > 0
  /\ LET v == Get(envs, threads[k].env, "x")
     IN /\ v.t \in {"num", "absent"}
        /\ threads' = IF v = Absent
                      THEN [threads EXCEPT ![k].state = "finished",
                              ![k].error = RaiseAt("Error", Text("worker"), <<>>)]
                      ELSE [threads EXCEPT ![k].tmp = v, ![k].pc = "write"]
  /\ UNCHANGED <<envs, functions, stack, exc, ret, outcome, left, lst, oop, obs>>

IncrementedLive(E, th) == Num(Get(E, th.env, "x").n + 1)

\* The value of `x plus 1` as the worker evaluated it: from the x it read
Incremented(E, th) == Num(th.tmp.n + 1)

\* env.assign("x", value) in the worker's frame
WorkerWrite(k) ==
  /\ WorkerLive(k)
  /\ threads[k].pc = "write"
  /\ envs' = Assign(envs, threads[k].env, "x", Incremented(envs, threads[k]))
  /\ threads' = [threads EXCEPT ![k].pc = "read", ![k].left = @ - 1]
  /\ UNCHANGED <<functions, stack, exc, ret, outcome, left, lst, oop, obs>>

\* except ReturnException as ret: self.thread_result = ret.value
WorkerGiveBack(k, v) ==
  /\ WorkerLive(k)
  /\ threads[k].pc = "read"
  /\ threads' = [threads EXCEPT ![k].state = "finished", ![k].result = Num(v)]
  /\ UNCHANGED <<envs, functions, stack, exc, ret, outcome, left, lst, oop, obs>>

\* except Exception as e: self.thread_error = e
WorkerThrow(k) ==
  /\ WorkerLive(k)
  /\ threads[k].pc = "read"
  /\ threads' = [threads EXCEPT ![k].state = "finished",
                                ![k].error = RaiseAt("Error", Text("worker"), <<>>)]
  /\ UNCHANGED <<envs, functions, stack, exc, ret, outcome, left, lst, oop, obs>>

\* The body ran to its end: thread_result stays None
WorkerEnd(k) ==
  /\ WorkerLive(k)
  /\ threads[k].pc = "read"
  /\ threads' = [threads EXCEPT ![k].state = "finished"]
  /\ UNCHANGED <<envs, functions, stack, exc, ret, outcome, left, lst, oop, obs>>

\* ------------------------------------------------- evaluate(WaitExpr)
\* hasattr(future, "result"): no value of the language has that attribute
HasResult(v) == FALSE

\* hasattr(future, "join"): a thread object, and a Python str
HasJoin(v) == v.t \in {"task", "text"}

JoinedAlways(th) == TRUE

\* future.join() returns once run() has returned
Joined(th) == th.state = "finished"

\* Let var be waiting for src.
ExecWait(var, src) ==
  /\ Statement
  /\ LET future == EvalIdentifier(envs, functions, Cur, src)
         seen == [Obs("wait") EXCEPT !.name = src, !.val = future, !.env = Cur]
     IN
     /\ obs' = seen
     /\ IF HasResult(future)
        THEN /\ ret' = Nothing
             /\ UNCHANGED <<envs, stack, exc>>
        ELSE IF HasJoin(future) /\ future.t = "task"
        THEN /\ Joined(threads[future.n])
             /\ IF threads[future.n].error # NoExc
                THEN \* raise future.thread_error
                     /\ exc' = threads[future.n].error
                     /\ UNCHANGED <<envs, stack, ret>>
                ELSE \* return future.thread_result
                     /\ ret' = threads[future.n].result
                     /\ envs' = Assign(envs, Cur, var, threads[future.n].result)
                     /\ stack' = MarkFresh(var)
                     /\ exc' = exc
        ELSE IF HasJoin(future)
        THEN \* str.join() without its argument
             /\ exc' = Raise("TypeError", Text("join"))
             /\ UNCHANGED <<envs, stack, ret>>
        ELSE \* "Cannot 'waiting for' something that is not an active ..."
             /\ exc' = Raise("Error", Text("not a task"))
             /\ UNCHANGED <<envs, stack, ret>>
  /\ UNCHANGED <<functions, outcome, lst, oop, threads>>

\* ------------------------------------- _exec_class_def, _exec_method_def
PropNames == {"p", "q", "x"}

\* ClassDef.properties as the program declares them for each class name
OwnProps(c) ==
  IF c = "A" THEN <<"p">> ELSE IF c = "B" THEN <<"q">> ELSE <<"x", "p">>

\* The parents a class of the program may name.  Classes form a tree: the
\* code never validates it and walks a cycle forever, so the program's
\* class declarations are taken to name parents in one direction only.
ParentChoices(c) ==
  IF c = "A" THEN {""} ELSE IF c = "B" THEN {"", "A"} ELSE {"", "A", "B"}

\* self.classes[node.name] = node (the methods entry it creates is empty)
ExecClassDef(c, parent) ==
  /\ Definition
  /\ classes' = [classes EXCEPT ![c] = ClassDef(OwnProps(c), parent)]
  /\ obs' = [Obs("classdef") EXCEPT !.name = c]
  /\ UNCHANGED <<envs, functions, stack, exc, ret, outcome, lst, methods,
                 instances, threads>>

\* self.methods[node.class_name][node.name] = node
ExecMethodDef(c, m) ==
  /\ Definition
  /\ methods' = [methods EXCEPT ![c] = @ \cup {m}]
  /\ obs' = [Obs("methoddef") EXCEPT !.name = c]
  /\ UNCHANGED <<envs, functions, stack, exc, ret, outcome, lst, classes,
                 instances, threads>>

\* ------------------------------------------------------ _eval_new_instance
Instance(class_name, properties) ==
  [class_name |-> class_name, properties |-> properties]

\* The value that refers to the Instance object instances[k]
Inst(k) == [t |-> "instance", n |-> k, e |-> 0, s |-> ""]

MergePropsOwnOnly(C, c, acc) == [ok |-> TRUE, props |-> C[c].props]

\* while current is not None: all_props = list(current.properties) +
\* all_props, then on to the parent; ok is FALSE where the parent is not
\* in self.classes
RECURSIVE MergeProps(_, _, _)
MergeProps(C, c, acc) ==
  IF C[c].parent = "" THEN [ok |-> TRUE, props |-> C[c].props \o acc]
  ELSE IF ~C[C[c].parent].defined THEN [ok |-> FALSE, props |-> <<>>]
  ELSE MergeProps(C, C[c].parent, C[c].props \o acc)

\* props = {p: None for p in all_props}; props[str(k)] = v for each pair.
\* A key the bag does not have maps to Absent.
NewProperties(all, supplied, v) ==
  [pn \in PropNames |->
     IF pn \in supplied THEN v
     ELSE IF \E j \in 1..Len(all) : all[j] = pn THEN Nothing
     ELSE Absent]

\* Let var be a new c with the pairs name: k for each name supplied.
ExecNew(var, c, supplied, k) ==
  /\ Statement
  /\ LET merged == MergeProps(classes, c, <<>>)
         seen == [Obs("new") EXCEPT !.name = c, !.names = supplied, !.n = k]
     IN
     IF ~classes[c].defined
     THEN \* "Class ... not found."
          /\ exc' = Raise("Error", Text("class not found"))
          /\ obs' = seen
          /\ UNCHANGED <<envs, stack, instances>>
     ELSE IF ~merged.ok
     THEN \* "Parent class ... not found."
          /\ exc' = Raise("Error", Text("parent class not found"))
          /\ obs' = seen
          /\ UNCHANGED <<envs, stack, instances>>
     ELSE /\ instances' = Append(instances,
                 Instance(c, NewProperties(merged.props, supplied, Num(k))))
          /\ envs' = Assign(envs, Cur, var, Inst(Len(instances) + 1))
          /\ stack' = MarkFresh(var)
          /\ obs' = [seen EXCEPT !.val = Inst(Len(instances) + 1)]
          /\ exc' = exc
  /\ UNCHANGED <<functions, ret, outcome, lst, classes, methods, threads>>

\* ----------------------------------------------------------- _call_method
\* The MethodDef node self.methods[c][name] (the call knows the name)
MethodDef(c) == [t |-> "methoddef", n |-> 0, e |-> 0, s |-> c]

\* The parameter lists of the MethodDefs the program defines: m takes q
\* with the default expression x, am takes p and then q likewise.
MethodParams(m) ==
  IF m = "am" THEN <<ParamDef("p", ""), ParamDef("q", "x")>>
  ELSE <<ParamDef("q", "x")>>

FindMethodOwnOnly(C, M, c, m) == IF m \in M[c] THEN c ELSE ""

\* The walk up the inheritance chain: the first class from c upwards whose
\* method table has m ("" where method_def stays None)
RECURSIVE FindMethod(_, _, _, _)
FindMethod(C, M, c, m) ==
  IF m \in M[c] THEN c
  ELSE IF C[c].defined /\ C[c].parent # "" THEN FindMethod(C, M, C[c].parent, m)
  ELSE ""

SnapshotNone(E, fenv, obj, props) == E

\* method_env.set_local("self", obj); for prop, val in
\* obj.properties.items(): method_env.set_local(prop, val)
SnapshotProps(E, fenv, obj, props) ==
  [E EXCEPT ![fenv].vars =
     [nm \in Names |->
        IF nm = "self" THEN obj
        ELSE IF nm \in PropNames /\ props[nm] # Absent THEN props[nm]
        ELSE @[nm]]]

\* Define an async method called am ...: parse_define drops the flag it
\* has read when it goes on to parse_method_def, and MethodDef has no such
\* field, so getattr(method_def, "is_async", False) is False for every
\* method.
MethodIsAsync(m) == FALSE

\* Call m on objvar with nargs arguments (_execute_call_chain with an
\* obj_expr, then _call_method on an Instance).  No property of the model
\* holds a native callable, so the walk up the chain always decides.
\* _call_method once method_def is known: the arity check, the method
\* frame, and the body started on the caller's activations S.
InvokeMethod(S, caller, obj, found, m, nargs, seen) ==
  LET fenv == Len(envs) + 1
  IN
  IF ~ArityOk(MethodParams(m), nargs)
  THEN \* "Method ... expects ... parameters but got ..."
       /\ exc' = Raise("Error", Text("arity"))
       /\ obs' = [seen EXCEPT !.val = MethodDef(found)]
       /\ stack' = S
       /\ UNCHANGED <<envs, ret, threads>>
  ELSE LET bound ==
             BindParams(SnapshotProps(Append(envs, NewEnvironment(1)), fenv,
                                      obj, instances[obj.n].properties),
                        functions, fenv, MethodParams(m), 1,
                        ArgVals(nargs), 1, caller)
       IN
       IF MethodIsAsync(m)
       THEN \* t = AsyncMethodThread(...); t.start(); return t
            /\ envs' = bound
            /\ threads' = Append(threads, Thread(fenv))
            /\ ret' = Task(Len(threads) + 1)
            /\ obs' = [seen EXCEPT !.val = MethodDef(found)]
            /\ stack' = S
            /\ exc' = exc
       ELSE \* self.execute(method_def.body, method_env)
            /\ envs' = bound
            /\ stack' = Append(S, [Frame("method", caller, fenv)
                                     EXCEPT !.callee = MethodDef(found),
                                            !.i = obj.n])
            /\ obs' = [seen EXCEPT !.val = MethodDef(found)]
            /\ UNCHANGED <<exc, ret, threads>>

ExecCallMethod(objvar, m, nargs) ==
  /\ Statement
  /\ LET obj == EvalIdentifier(envs, functions, Cur, objvar)
         cls == IF obj.t = "instance" THEN instances[obj.n].class_name ELSE ""
         found == IF cls = "" THEN "" ELSE FindMethod(classes, methods, cls, m)
         seen == [Obs("callmethod") EXCEPT !.name = m, !.env = Cur,
                                          !.n = nargs, !.frame.i = obj.n]
     IN
     IF obj.t # "instance"
     THEN \* "Can only call methods on objects or modules"
          /\ exc' = Raise("Error", Text("not an object"))
          /\ obs' = [seen EXCEPT !.frame.i = 0]
          /\ UNCHANGED <<envs, stack, ret, threads>>
     ELSE IF found = ""
     THEN \* "Method ... not found for class ..."
          /\ exc' = Raise("Error", Text("method not found"))
          /\ obs' = seen
          /\ UNCHANGED <<envs, stack, ret, threads>>
     ELSE InvokeMethod(stack, Cur, obj, found, m, nargs, seen)
  /\ UNCHANGED <<functions, outcome, lst, oop>>

\* The method body ran to its end: ret_val = None
MethodEnd ==
  /\ Running
  /\ Top.kind = "method"
  /\ PopFrame({})
  /\ ret' = Nothing
  /\ obs' = [Obs("methodend") EXCEPT !.env = Top.env]
  /\ UNCHANGED <<functions, exc, outcome, left, lst, oop, threads>>

\* except ReturnException: ret_val = e.value; except RuntimeError_: note
\* the call site and re-raise; nothing else is caught.
MethodCatch ==
  /\ outcome = "running"
  /\ exc.k # "none"
  /\ Top.kind = "method"
  /\ PopFrame({exc.v})
  /\ IF exc.k = "Return"
     THEN exc' = NoExc /\ ret' = exc.v
     ELSE exc' = PlainStack(exc, Top, Len(stack)) /\ ret' = ret
  /\ obs' = [Obs("methodcatch") EXCEPT !.names = {exc.k}, !.val = exc.v]
  /\ UNCHANGED <<functions, outcome, left, lst, oop, threads>>

\* ------------------------- the inheritance walks, one iteration a step
\* The two while loops over the parent links, for class tables in which
\* the links may form a cycle. A walk is an activation without a body.
WalkKinds == {"new", "lookup"}
ClassRef(c) == [t |-> "class", n |-> 0, e |-> 0, s |-> c]
Walking == outcome = "running" /\ exc.k = "none" /\ Len(stack) > 0
             /\ Top.kind \in WalkKinds

\* list(current.properties) + all_props, as far as the keys of the bag go
RECURSIVE AddProps(_, _)
AddProps(props, acc) ==
  IF props = <<>> THEN acc
  ELSE LET rest == AddProps(Tail(props), acc)
       IN IF \E j \in 1..Len(rest) : rest[j] = Text(Head(props)) THEN rest
          ELSE <<Text(Head(props))>> \o rest

ParentOfNone(C, c) == ""

\* current.parent / self.classes[search_class].parent
ParentOf(C, c) == C[c].parent

\* Let var be a new c: _eval_new_instance up to its while loop
NewStart(var, c) ==
  /\ Statement
  /\ IF ~classes[c].defined
     THEN /\ exc' = Raise("Error", Text("class not found"))
          /\ stack' = stack
     ELSE /\ stack' = Append(stack, [Frame("new", Cur, 0) EXCEPT
                         !.callee = ClassRef(c), !.var = var,
                         !.items = <<ClassRef(c)>>])
          /\ exc' = exc
  /\ obs' = [Obs("newstart") EXCEPT !.name = c]
  /\ UNCHANGED <<envs, functions, ret, outcome, lst, oop, threads>>

\* One iteration of `while current is not None`, and what follows the loop
NewStep ==
  /\ Walking
  /\ Top.kind = "new"
  /\ LET cur == Top.callee.s
         all == AddProps(classes[cur].props, Top.visited)
         parent == ParentOf(classes, cur)
     IN IF parent # "" /\ ~classes[parent].defined
        THEN \* "Parent class ... not found."
             /\ stack' = Pop(stack)
             /\ exc' = Raise("Error", Text("parent class not found"))
             /\ obs' = Obs("newstep")
             /\ UNCHANGED <<envs, instances>>
        ELSE IF parent # ""
        THEN /\ stack' = [stack EXCEPT ![Len(stack)].callee = ClassRef(parent),
                                       ![Len(stack)].visited = all]
             /\ obs' = Obs("newstep")
             /\ UNCHANGED <<envs, exc, instances>>
        ELSE /\ instances' = Append(instances,
                   Instance(Top.items[1].s,
                            NewProperties([j \in 1..Len(all) |-> all[j].s],
                                          {}, Nothing)))
             /\ envs' = Assign(envs, Top.env, Top.var, Inst(Len(instances) + 1))
             /\ stack' = Pop(stack)
             /\ obs' = [Obs("new") EXCEPT !.name = Top.items[1].s,
                                         !.val = Inst(Len(instances) + 1)]
             /\ exc' = exc
  /\ UNCHANGED <<functions, ret, outcome, left, lst, classes, methods, threads>>

\* Call m on objvar: _call_method up to its while loop
LookupStart(objvar, m) ==
  /\ Statement
  /\ LET obj == EvalIdentifier(envs, functions, Cur, objvar)
     IN IF obj.t # "instance"
        THEN /\ exc' = Raise("Error", Text("not an object"))
             /\ stack' = stack
        ELSE /\ stack' = Append(stack, [Frame("lookup", Cur, 0) EXCEPT
                            !.callee = ClassRef(instances[obj.n].class_name),
                            !.var = m, !.i = obj.n])
             /\ exc' = exc
  /\ obs' = [Obs("lookupstart") EXCEPT !.name = m]
  /\ UNCHANGED <<envs, functions, ret, outcome, lst, oop, threads>>

\* One iteration of `while search_class`, and what follows the loop
LookupStep ==
  /\ Walking
  /\ Top.kind = "lookup"
  /\ LET search == Top.callee.s
         m == Top.var
         seen == [Obs("callmethod") EXCEPT !.name = m, !.env = Top.env,
                                          !.frame.i = Top.i]
     IN IF m \in methods[search]
        THEN InvokeMethod(Pop(stack), Top.env, Inst(Top.i), search, m, 0, seen)
        ELSE IF classes[search].defined /\ ParentOf(classes, search) # ""
        THEN /\ stack' = [stack EXCEPT ![Len(stack)].callee =
                            ClassRef(ParentOf(classes, search))]
             /\ obs' = Obs("lookupstep")
             /\ UNCHANGED <<envs, exc, ret, threads>>
        ELSE \* "Method ... not found for class ..."
             /\ stack' = Pop(stack)
             /\ exc' = Raise("Error", Text("method not found"))
             /\ obs' = seen
             /\ UNCHANGED <<envs, ret, threads>>
  /\ UNCHANGED <<functions, outcome, left, lst, oop>>

\* ------------------------------------------------------ _exec_set_property
\* Set the pn of objvar to k.
ExecSetProperty(objvar, pn, k) ==
  /\ Statement
  /\ LET obj == EvalIdentifier(envs, functions, Cur, objvar)
     IN IF obj.t = "instance"
        THEN /\ instances' = [instances EXCEPT ![obj.n].properties[pn] = Num(k)]
             /\ exc' = exc
        ELSE \* "Can only set properties on objects or dictionaries."
             /\ exc' = Raise("Error", Text("not an object"))
             /\ instances' = instances
  /\ obs' = [Obs("setprop") EXCEPT !.name = pn, !.val = Num(k), !.env = Cur]
  /\ UNCHANGED <<envs, functions, stack, ret, outcome, lst, classes, methods,
                 threads>>

\* ------------------------------------------------------- specifications
\* Scopes: Let in nested blocks, loop variables, call frames.
NextScope ==
  \/ \E nm \in {"x"}, k \in 1..MaxNum : ExecLet(nm, k)
  \/ ExecIf
  \/ IfEnd
  \/ IfRaise
  \/ \E to \in 1..MaxCount : ExecRange("x", 1, to, 1)
  \/ RangeIter
  \/ RangeDone
  \/ RangeBodyEnd
  \/ RangeCatch
  \/ ExecFunctionDef("f")
  \/ ExecCall("f", 0)
  \/ CallEnd
  \/ CallCatch
  \/ ExecGiveBack(1)
  \/ TopEnd
  \/ TopCatch

SpecScope == Init /\ [][NextScope]_vars

\* Closures: made in the top scope, an if arm or a loop iteration, called
\* after the variable they read was assigned again.
NextClosure ==
  \/ \E k \in 1..MaxNum : ExecLet("x", k)
  \/ \E nm \in {"f", "g"} : ExecLetLambda(nm, "x")
  \/ ExecIf
  \/ IfEnd
  \/ IfRaise
  \/ ExecRange("x", 1, 1, 1)
  \/ RangeIter
  \/ RangeDone
  \/ RangeBodyEnd
  \/ RangeCatch
  \/ \E nm \in {"f", "g"} : ExecCall(nm, 0)
  \/ TopEnd
  \/ TopCatch

SpecClosure == Init /\ [][NextClosure]_vars

\* Calls by name: f may be a number, a closure or a native callable in some
\* scope of the chain, and a global function.
NextCall ==
  \/ ExecLet("f", 1)
  \/ ExecLetLambda("f", "x")
  \/ ExecImport("f")
  \/ ExecFunctionDef("f")
  \/ ExecIf
  \/ IfEnd
  \/ IfRaise
  \/ \E na \in 0..1 : ExecCall("f", na)
  \/ CallEnd
  \/ CallCatch
  \/ TopEnd
  \/ TopCatch

SpecCall == Init /\ [][NextCall]_vars

\* While loops, to the iteration cap and beyond.
NextWhile ==
  \/ ExecWhile
  \/ WhileIter
  \/ \E k \in {WhileCap - 1, WhileCap} : WhileSpin(k)
  \/ WhileDone
  \/ WhileBodyEnd
  \/ WhileCatch
  \/ ExecStop
  \/ ExecSkip
  \/ ExecIf
  \/ IfEnd
  \/ IfRaise
  \/ TopEnd
  \/ TopCatch

SpecWhile == Init /\ [][NextWhile]_vars

\* For-each loops over a list the body adds to and removes from.
NextForEach ==
  \/ \E v \in 1..MaxNum : ExecAdd(v)
  \/ \E idx \in 1..MaxNum : ExecRemove(idx)
  \/ ExecForEach("x")
  \/ ForEachIter
  \/ ForEachDone
  \/ ForEachBodyEnd
  \/ ForEachCatch
  \/ TopEnd
  \/ TopCatch

SpecForEach == Init /\ [][NextForEach]_vars

\* Numeric range loops with positive, negative and zero steps.
NextRange ==
  \/ \E from \in 1..MaxCount, to \in 1..MaxCount, step \in (0 - 1)..MaxCount :
        ExecRange("x", from, to, step)
  \/ RangeIter
  \/ RangeDone
  \/ RangeBodyEnd
  \/ RangeCatch
  \/ ExecStop
  \/ ExecSkip
  \/ TopEnd
  \/ TopCatch

SpecRange == Init /\ [][NextRange]_vars

\* Control flow: the four loops, if, try/handle, attempt/rescue and calls,
\* with Stop, Skip, give back and runtime errors raised in their bodies.
NextControl ==
  \/ ExecStop
  \/ ExecSkip
  \/ ExecGiveBack(1)
  \/ ExecThrow
  \/ ExecIf
  \/ IfEnd
  \/ IfRaise
  \/ ExecRepeat(MaxCount)
  \/ RepeatIter
  \/ RepeatDone
  \/ RepeatBodyEnd
  \/ RepeatCatch
  \/ ExecWhile
  \/ WhileIter
  \/ WhileDone
  \/ WhileBodyEnd
  \/ WhileCatch
  \/ ExecAdd(1)
  \/ ExecForEach("x")
  \/ ForEachIter
  \/ ForEachDone
  \/ ForEachBodyEnd
  \/ ForEachCatch
  \/ ExecRange("x", 1, MaxCount, 1)
  \/ RangeIter
  \/ RangeDone
  \/ RangeBodyEnd
  \/ RangeCatch
  \/ ExecTry
  \/ TryEnd
  \/ TryCatch("x")
  \/ HandleEnd
  \/ HandleRaise
  \/ ExecAttempt
  \/ AttemptEnd
  \/ AttemptCatch("x")
  \/ RescueEnd
  \/ RescueRaise
  \/ ExecFunctionDef("f")
  \/ ExecCall("f", 0)
  \/ CallEnd
  \/ CallCatch
  \/ TopEnd
  \/ TopCatch

SpecControl == Init /\ [][NextControl]_vars

\* ----------------------------------------------------------- properties
\* The scopes of the chain that starts at scope i.
\* Arity: a named function, a closure and a method that take parameters,
\* called with every argument count.
NextArity ==
  \/ ExecFunctionDef("h")
  \/ ExecLetLambda("g", "q")
  \/ \E nm \in {"h", "g"}, na \in 0..3 : ExecCall(nm, na)
  \/ CallEnd
  \/ CallCatch
  \/ ExecClassDef("A", "")
  \/ ExecMethodDef("A", "am")
  \/ ExecNew("f", "A", {}, 1)
  \/ \E na \in 0..3 : ExecCallMethod("f", "am", na)
  \/ MethodEnd
  \/ MethodCatch
  \/ TopEnd
  \/ TopCatch

SpecArity == Init /\ [][NextArity]_vars

\* Defaults: the same callables called with an argument short, from scopes
\* that hold a loop variable of the default expression's name.
NextParams ==
  \/ \E k \in 1..MaxNum : ExecLet("x", k)
  \/ ExecFunctionDef("h")
  \/ ExecLetLambda("g", "q")
  \/ ExecRange("x", 1, 1, 1)
  \/ RangeIter
  \/ RangeDone
  \/ RangeBodyEnd
  \/ RangeCatch
  \/ \E na \in 1..2 : ExecCall("h", na)
  \/ \E na \in 0..1 : ExecCall("g", na)
  \/ CallEnd
  \/ CallCatch
  \/ ExecClassDef("A", "")
  \/ ExecMethodDef("A", "am")
  \/ ExecNew("f", "A", {}, 1)
  \/ \E na \in 1..2 : ExecCallMethod("f", "am", na)
  \/ MethodEnd
  \/ MethodCatch
  \/ ExecThrow
  \/ TopEnd
  \/ TopCatch

SpecParams == Init /\ [][NextParams]_vars

\* Construction: class definitions and new instances.
NextNew ==
  \/ \E c \in {"A", "B"} : \E pa \in ParentChoices(c) : ExecClassDef(c, pa)
  \/ \E c \in ClassNames, supplied \in {{}, {"p"}, {"x"}} :
       ExecNew("x", c, supplied, 1)
  \/ TopEnd
  \/ TopCatch

SpecNew == Init /\ [][NextNew]_vars

\* Method dispatch: any tree of three classes with m defined on any of
\* them, instances of each, calls of m.
NextDispatch ==
  \/ \E c \in ClassNames : \E pa \in ParentChoices(c) : ExecClassDef(c, pa)
  \/ \E c \in ClassNames : ExecMethodDef(c, "m")
  \/ \E c \in ClassNames : ExecNew("x", c, {}, 1)
  \/ ExecCallMethod("x", "m", 0)
  \/ MethodEnd
  \/ MethodCatch
  \/ ExecThrow
  \/ TopEnd
  \/ TopCatch

SpecDispatch == Init /\ [][NextDispatch]_vars

\* Error handling: both protected statements around Let, Throw and each
\* other, with the error variable x also bound outside.
NextHandlers ==
  \/ \E k \in 1..MaxNum : ExecLet("x", k)
  \/ ExecLet("p", 1)
  \/ ExecThrow
  \/ ExecTry
  \/ TryEnd
  \/ TryCatch("x")
  \/ HandleEnd
  \/ HandleRaise
  \/ ExecAttempt
  \/ AttemptEnd
  \/ AttemptCatch("x")
  \/ RescueEnd
  \/ RescueRaise
  \/ TopEnd
  \/ TopCatch

SpecHandlers == Init /\ [][NextHandlers]_vars

\* Async functions: a is async; its handle is kept in f or dropped, and
\* waited for or not, while the worker runs its body.
NextAsync ==
  \/ ExecFunctionDef("a")
  \/ ExecLetResult("f", "a")
  \/ \E n \in 0..1 : ExecCall("a", n)
  \/ ExecWait("g", "f")
  \/ \E k \in 1..Len(threads) : \E v \in 1..MaxNum : WorkerGiveBack(k, v)
  \/ \E k \in 1..Len(threads) : WorkerThrow(k)
  \/ \E k \in 1..Len(threads) : WorkerEnd(k)
  \/ TopEnd
  \/ TopCatch

SpecAsync == Init /\ [][NextAsync]_vars

\* Waiting for a value of every kind: literals, an instance, a closure, a
\* function name, an unbound name, and the handle of an async call.
NextWait ==
  \/ \E v \in Literals : ExecLetLiteral("x", v)
  \/ ExecClassDef("A", "")
  \/ ExecNew("x", "A", {}, 1)
  \/ ExecLetLambda("x", "q")
  \/ ExecFunctionDef("a")
  \/ ExecLetResult("x", "a")
  \/ \E src \in {"x", "a", "q"} : ExecWait("g", src)
  \/ \E k \in 1..Len(threads) : WorkerEnd(k)
  \/ ExecTry
  \/ TryEnd
  \/ TryCatch("p")
  \/ HandleEnd
  \/ HandleRaise
  \/ ExecAttempt
  \/ AttemptEnd
  \/ AttemptCatch("p")
  \/ RescueEnd
  \/ RescueRaise
  \/ TopEnd
  \/ TopCatch

SpecWait == Init /\ [][NextWait]_vars

\* Two workers of the async function a, started after x was set, each
\* running `Set x to x plus 1.`
RaceLet(k) == threads = <<>> /\ ExecLet("x", k)

NextRace ==
  \/ ExecFunctionDef("a")
  \/ \E k \in 1..MaxNum : RaceLet(k)
  \/ ExecLetResult("f", "a")
  \/ ExecLetResult("g", "a")
  \/ \E src \in {"f", "g"} : ExecWait("p", src)
  \/ \E k \in 1..Len(threads) : WorkerRead(k)
  \/ \E k \in 1..Len(threads) : WorkerWrite(k)
  \/ \E k \in 1..Len(threads) : WorkerEnd(k)
  \/ TopEnd
  \/ TopCatch

SpecRace == Init /\ [][NextRace]_vars

\* The two entry points: one file run by run_source, or a session of
\* run_interactive entries sharing one Interpreter.
NextSession ==
  \/ \E unit \in Units : LoadFile(unit)
  \/ \E unit \in Units : Entry(unit)
  \/ UnitStmt
  \/ SourceEnd
  \/ TopCatch
  \/ EntryEnd
  \/ EntryCatch

SpecSession == InitSession /\ [][NextSession]_vars

\* Call sites: functions and methods calling each other through if,
\* repeat and range blocks, a statement failing inside, attempt around.
NextTrace ==
  \/ ExecFunctionDef("f")
  \/ ExecClassDef("A", "")
  \/ ExecMethodDef("A", "m")
  \/ ExecNew("x", "A", {}, 1)
  \/ ExecCall("f", 0)
  \/ CallEnd
  \/ CallCatch
  \/ ExecCallMethod("x", "m", 0)
  \/ MethodEnd
  \/ MethodCatch
  \/ ExecThrow
  \/ ExecIf
  \/ IfEnd
  \/ IfRaise
  \/ ExecRepeat(1)
  \/ RepeatIter
  \/ RepeatDone
  \/ RepeatBodyEnd
  \/ RepeatCatch
  \/ ExecRange("p", 1, 1, 1)
  \/ RangeIter
  \/ RangeDone
  \/ RangeBodyEnd
  \/ RangeCatch
  \/ ExecAttempt
  \/ AttemptEnd
  \/ AttemptCatch("q")
  \/ RescueEnd
  \/ RescueRaise
  \/ TopEnd
  \/ TopCatch

SpecTrace == Init /\ [][NextTrace]_vars

\* Arithmetic: every operator on every pair of operand expressions, the
\* result kept in x and used as an operand again.
NextArith ==
  \/ \E op \in Ops : \E l \in Atoms : \E r \in Atoms : ExecLetOp("x", op, l, r)
  \/ TopEnd
  \/ TopCatch

SpecArith == Init /\ [][NextArith]_vars

\* Class tables with arbitrary parent links, cycles included: classes are
\* defined and redefined, instantiated and their instances called, the
\* walks over the parent links taking one iteration a step.
CycleClasses == {"A", "B"}

NextCycle ==
  \/ \E c \in CycleClasses : \E pa \in CycleClasses \cup {""} : ExecClassDef(c, pa)
  \/ \E c \in CycleClasses : ExecMethodDef(c, "m")
  \/ \E c \in CycleClasses : NewStart("x", c)
  \/ NewStep
  \/ LookupStart("x", "m")
  \/ LookupStep
  \/ MethodEnd
  \/ MethodCatch
  \/ TopEnd
  \/ TopCatch

\* The interpreter thread keeps running: a loop iteration that can be
\* taken is taken.
SpecCycle ==
  Init /\ [][NextCycle]_vars /\ WF_vars(NewStep) /\ WF_vars(LookupStep)

\* The lexer run on every source text of up to MaxLen characters.
NextLexer ==
  \/ LexStep
  \/ LexEnd

SpecLexer == InitLexer /\ [][NextLexer]_vars

\* Loop control raised below a call: a function and a method whose bodies
\* execute Stop or Skip, called from loop bodies, from protected bodies
\* and from each other.
NextSignal ==
  \/ ExecFunctionDef("f")
  \/ ExecClassDef("A", "")
  \/ ExecMethodDef("A", "m")
  \/ ExecNew("x", "A", {}, 1)
  \/ ExecCall("f", 0)
  \/ CallEnd
  \/ CallCatch
  \/ ExecCallMethod("x", "m", 0)
  \/ MethodEnd
  \/ MethodCatch
  \/ ExecStop
  \/ ExecSkip
  \/ ExecRepeat(MaxCount)
  \/ RepeatIter
  \/ RepeatDone
  \/ RepeatBodyEnd
  \/ RepeatCatch
  \/ ExecWhile
  \/ WhileIter
  \/ WhileDone
  \/ WhileBodyEnd
  \/ WhileCatch
  \/ ExecTry
  \/ TryEnd
  \/ TryCatch("q")
  \/ HandleEnd
  \/ HandleRaise
  \/ ExecAttempt
  \/ AttemptEnd
  \/ AttemptCatch("q")
  \/ RescueEnd
  \/ RescueRaise
  \/ TopEnd
  \/ TopCatch

SpecSignal == Init /\ [][NextSignal]_vars

\* Loop variables: for-each and numeric range loops over a variable that
\* statements, other loops and a function body also assign; Stop ends a
\* loop early.
NextBind ==
  \/ \E k \in 1..MaxNum : ExecLet("x", k)
  \/ \E v \in 1..MaxNum : ExecAdd(v)
  \/ ExecForEach("x")
  \/ ForEachIter
  \/ ForEachDone
  \/ ForEachBodyEnd
  \/ ForEachCatch
  \/ ExecRange("x", 1, MaxCount, 1)
  \/ RangeIter
  \/ RangeDone
  \/ RangeBodyEnd
  \/ RangeCatch
  \/ ExecFunctionDef("f")
  \/ ExecCall("f", 0)
  \/ CallEnd
  \/ CallCatch
  \/ ExecStop
  \/ TopEnd
  \/ TopCatch

SpecBind == Init /\ [][NextBind]_vars

\* Method frames: a class with a property, its methods called with every
\* argument count, Let and Set inside the method body.
NextMethod ==
  \/ ExecClassDef("A", "")
  \/ \E m \in MethodNames : ExecMethodDef("A", m)
  \/ \E supplied \in {{}, {"p"}} : ExecNew("g", "A", supplied, 1)
  \/ \E k \in 1..MaxNum : ExecLet("x", k)
  \/ ExecLet("p", MaxNum)
  \/ ExecSetProperty("self", "p", MaxNum)
  \/ \E m \in MethodNames, na \in 0..3 : ExecCallMethod("g", m, na)
  \/ ExecGiveBack(1)
  \/ MethodEnd
  \/ MethodCatch
  \/ TopEnd
  \/ TopCatch

SpecMethod == Init /\ [][NextMethod]_vars

RECURSIVE Chain(_, _)
Chain(E, i) == IF i = 0 THEN {} ELSE {i} \cup Chain(E, E[i].parent)

Max(S) == CHOOSE m \in S : \A o \in S : o <= m

\* The nearest scope of the chain of i that holds the name (a scope is
\* always made after its parent, so the nearest is the youngest), 0 if none.
NearestHolder(E, i, name) ==
  LET holders == {j \in Chain(E, i) : E[j].vars[name] # Absent}
  IN IF holders = {} THEN 0 ELSE Max(holders)

\* C1: a name bound in no scope of the chain and first assigned inside a
\* nested block (if arm, loop iteration, call frame) is not bound in the
\* enclosing scope once the block has finished: looking it up from there fails.
C1_FreshNameDoesNotLeak ==
  obs.op = "blockend" => \A nm \in obs.names : Get(envs, obs.env, nm) = Absent

\* C2: a Let of a name that some scope of the chain holds rewrites the
\* binding in the nearest scope that holds it; no scope gains a binding and
\* every other binding of every scope keeps its value.
C2_AssignRewritesNearestHolder ==
  [][(obs'.op = "let" /\ NearestHolder(envs, obs'.env, obs'.name) # 0)
       => envs' = [envs EXCEPT
                     ![NearestHolder(envs, obs'.env, obs'.name)].vars[obs'.name]
                        = obs'.val]]_vars

\* C2 happens: a Let run in a nested scope wrote a scope between the root
\* and the current one, and the root's binding of the name kept another value.
C2_Witness ==
  /\ obs.op = "let"
  /\ NearestHolder(envs, obs.env, obs.name) \notin {0, 1, obs.env}
  /\ envs[NearestHolder(envs, obs.env, obs.name)].vars[obs.name] = obs.val
  /\ envs[1].vars[obs.name] \notin {Absent, obs.val}

\* C3: a call of a closure over "gives back v" yields the value v has now
\* in the scope the closure captured, whatever v stood for when the closure
\* was made; every closure of that scope over v yields that same value.
C3_ClosureReadsLatest ==
  (obs.op = "call" /\ obs.val.t = "lambda" /\ exc.k = "none")
    => /\ Get(envs, obs.val.e, obs.val.s) # Absent
            => ret = Get(envs, obs.val.e, obs.val.s)
       /\ \A nm \in Names :
            LET other == Get(envs, obs.env, nm)
            IN (other.t = "lambda" /\ other.e = obs.val.e /\ other.s = obs.val.s)
                 => CallLambda(envs, functions, other, <<>>, obs.env) = ret

\* C3 happens: the closure called was made when the variable stood for
\* something else than the number the call yields, and a second closure of
\* the same scope, made at another time, is in reach.
C3_Witness ==
  /\ obs.op = "call" /\ obs.val.t = "lambda" /\ exc.k = "none"
  /\ ret.t = "num" /\ obs.val.n # ret.n
  /\ \E nm \in Names :
       LET other == Get(envs, obs.env, nm)
       IN other.t = "lambda" /\ other.e = obs.val.e /\ other.s = obs.val.s
          /\ other.n # obs.val.n

\* The nearest loop that encloses the statement executing on top of the
\* stack within the same function body (0 if there is none).
NearestLoop(S) ==
  LET loops == {j \in 1..Len(S) :
                  /\ S[j].kind \in LoopKinds
                  /\ \A m \in (j + 1)..Len(S) : S[m].kind # "call"}
  IN IF loops = {} THEN 0 ELSE Max(loops)

\* C4: a Stop or Skip raised in a loop body travels to the nearest enclosing
\* loop and no further: the constructs between are left one by one with the
\* signal intact; at the loop a Stop ends that loop alone (its activation is
\* gone, everything outside it is as it was) and a Skip ends the iteration
\* alone (the loop stands ready for its next iteration).
C4_StopSkipNearestLoop ==
  [][(exc.k \in {"Stop", "Skip"} /\ NearestLoop(stack) # 0)
       => IF Len(stack) > NearestLoop(stack)
          THEN exc' = exc /\ stack' = Pop(stack)
          ELSE /\ exc' = NoExc
               /\ stack' = IF exc.k = "Stop" THEN Pop(stack)
                           ELSE [stack EXCEPT ![Len(stack)].benv = 0]]_vars

AnyCall(S) == \E j \in 1..Len(S) : S[j].kind = "call"

\* C5: a give back inside a function body unwinds to the nearest enclosing
\* call frame: every construct between is left with the signal intact, the
\* call ends with the given value, and a body that ends without give back
\* yields nothing.
C5_GiveBackUnwindsToCall ==
  [][/\ (exc.k = "Return" /\ AnyCall(stack))
          => IF Top.kind = "call"
             THEN exc' = NoExc /\ ret' = exc.v /\ stack' = Pop(stack)
             ELSE exc' = exc /\ stack' = Pop(stack)
     /\ (exc.k = "none" /\ Len(stack) > 0 /\ Top.kind = "call" /\ stack' = Pop(stack))
          => ret' = Nothing]_vars

\* C6: the handler of try/handle and of attempt/rescue runs only for a
\* runtime error; Stop, Skip and give back pass through the statement.
C6_HandlerOnlyOnError ==
  (obs.op = "protected" /\ obs.names \cap {"Stop", "Skip", "Return"} # {})
    => obs.n = 0 /\ exc.k \in obs.names

\* C7: no while loop begins more than WhileCap bodies; the loop that still
\* wants one more ends with a runtime error, having begun exactly WhileCap;
\* with WhileCap bodies begun a loop can only end.
C7_WhileCapped ==
  /\ [](\A j \in 1..Len(stack) : stack[j].kind = "while" => stack[j].n <= WhileCap)
  /\ []((obs.op = "loopend" /\ obs.names = {"cap"})
          => exc.k = "Error" /\ obs.frame.n = WhileCap)
  /\ [][(exc.k = "none" /\ Len(stack) > 0 /\ Top.kind = "while" /\ Top.benv = 0
           /\ Top.n = WhileCap)
          => obs'.op = "loopend" /\ stack' = Pop(stack)]_vars

\* C7 happens: a loop was ended by the cap after exactly WhileCap bodies.
C7_Witness ==
  obs.op = "loopend" /\ obs.names = {"cap"} /\ obs.frame.n = WhileCap
    /\ exc.k = "Error"

\* C8: the elements a for-each loop has bound so far are the first elements
\* of the list as it was at loop entry, in order, and a loop that ran out of
\* elements has bound exactly that list, whatever the body did to the list.
C8_ForEachSnapshot ==
  /\ \A j \in 1..Len(stack) :
       stack[j].kind = "foreach"
         => /\ stack[j].i <= Len(stack[j].items)
            /\ stack[j].visited = SubSeq(stack[j].items, 1, stack[j].i)
  /\ (obs.op = "loopend" /\ obs.name = "foreach")
       => obs.frame.visited = obs.frame.items

\* C8 happens: a loop over two or more elements ran out of elements and the
\* list is no longer what it was at loop entry.
C8_Witness ==
  /\ obs.op = "loopend" /\ obs.name = "foreach"
  /\ Len(obs.frame.items) >= 2
  /\ lst # obs.frame.items

\* start, start + s, ... as long as the value lies between start and stop
InclusiveRange(from, to, step) ==
  LET len == IF step > 0 /\ from <= to THEN ((to - from) \div step) + 1
             ELSE IF step < 0 /\ from >= to THEN ((from - to) \div (0 - step)) + 1
             ELSE 0
  IN [j \in 1..len |-> from + (j - 1) * step]

\* C9: a range loop that ran out of values has bound its variable to
\* start, start + s, start + 2s, ... for every such value in the inclusive
\* range between start and stop, for positive and negative steps alike.
C9_RangeInclusive ==
  (obs.op = "loopend" /\ obs.name = "range")
    => obs.frame.visited =
         InclusiveRange(obs.frame.from, obs.frame.to, obs.frame.step)

\* C10: a call by name calls the callable the name stands for in the
\* caller's scope chain, even if a global function of that name exists;
\* else the global function of that name; else it fails with "function not
\* found", no argument evaluated.
C10_CallResolution ==
  obs.op = "call"
    => LET v == Get(envs, obs.env, obs.name)
       IN /\ IF IsCallable(v) THEN obs.val = v
             ELSE IF obs.name \in functions THEN obs.val = FuncDef(obs.name)
             ELSE /\ obs.val = Absent
                  /\ exc = Raise("Error", Text("function not found"))
                  /\ obs.n = 0
          /\ (obs.val.t \in {"funcdef", "funclosure"} /\ exc.k = "none")
               => Top.kind = "call" /\ Top.callee = obs.val
          /\ (obs.val.t = "lambda" /\ exc.k = "none")
               => ret = CallLambda(envs, functions, obs.val, ArgVals(obs.n), obs.env)

\* C10 happens: called from a nested scope, the name stands for a closure
\* in an outer scope while a global function of that name exists.
C10_Witness ==
  /\ obs.op = "call" /\ obs.env # 1
  /\ Get(envs, obs.env, obs.name).t = "lambda"
  /\ obs.name \in functions
  /\ obs.val = Get(envs, obs.env, obs.name)
  /\ exc.k = "none"

\* The callee a call step has resolved, and its parameter list
CalleeKnown(o) ==
  \/ o.op = "call" /\ o.val.t \in ClosureKinds \cup {"funcdef"}
  \/ o.op = "callmethod" /\ o.val.t = "methoddef"

CalleeParams(o) ==
  IF o.op = "callmethod" THEN MethodParams(o.name) ELSE ParamsOf(o.val)

DefiningScope(v) == IF v.t \in ClosureKinds THEN v.e ELSE 1

\* C12: after a call the j-th parameter holds the j-th argument, and each
\* parameter beyond the arguments holds its default expression's value in
\* the callee's defining scope, whatever the caller's scope chain holds.
C12_DefaultsInDefiningScope ==
  (CalleeKnown(obs) /\ exc.k = "none" /\ CalleeParams(obs) # <<>>)
    => LET P == CalleeParams(obs)
           expected(j) == IF j <= obs.n THEN Num(j)
                          ELSE EvalIdentifier(envs, functions,
                                              DefiningScope(obs.val),
                                              P[j].default)
       IN IF obs.val.t = "lambda"
          THEN ret = expected(1)
          ELSE \A j \in 1..Len(P) :
                 envs[Top.benv].vars[P[j].name] = expected(j)

\* C12 happens: a method used a default in a call made from a scope whose
\* chain gives the default expression's name a value the global scope does
\* not give it.
C12_Witness ==
  /\ obs.op = "callmethod" /\ obs.val.t = "methoddef" /\ exc.k = "none"
  /\ obs.n < Len(CalleeParams(obs))
  /\ Get(envs, obs.env, "x") # Absent
  /\ Get(envs, obs.env, "x") # EvalIdentifier(envs, functions, 1, "x")

\* The classes from c up to the root of its chain, or {} if a class on the
\* way is not defined
RECURSIVE Lineage(_, _)
Lineage(C, c) ==
  IF ~C[c].defined THEN {}
  ELSE IF C[c].parent = "" THEN {c}
  ELSE IF Lineage(C, C[c].parent) = {} THEN {}
  ELSE {c} \cup Lineage(C, C[c].parent)

Declared(C, c) ==
  {pn \in PropNames :
     \E a \in Lineage(C, c) : \E j \in 1..Len(C[a].props) : C[a].props[j] = pn}

RECURSIVE Up(_, _, _)
Up(C, c, k) ==
  IF k = 0 THEN c
  ELSE LET below == Up(C, c, k - 1)
       IN IF below # "" /\ C[below].defined THEN C[below].parent ELSE ""

Min(S) == CHOOSE m \in S : \A o \in S : m <= o

\* How far up the chain of c the classes that define method m are
Definers(C, M, c, m) ==
  {k \in 0..(Cardinality(ClassNames) - 1) : Up(C, c, k) # "" /\ m \in M[Up(C, c, k)]}

C14_MethodFrameIsSnapshot ==
  /\ []((obs.op = "callmethod" /\ obs.val.t = "methoddef" /\ exc.k = "none")
          => /\ envs[Top.benv].vars["self"] = Inst(obs.frame.i)
             /\ \A pn \in PropNames :
                  (\A j \in 1..Len(MethodParams(obs.name)) :
                     MethodParams(obs.name)[j].name # pn)
                    => envs[Top.benv].vars[pn] =
                         instances[obs.frame.i].properties[pn])
  /\ [][/\ instances' # instances => obs'.op \in {"new", "setprop"}
        /\ (obs'.op = "setprop" /\ exc'.k = "none")
             => \E k \in 1..Len(instances) :
                  instances' = [instances EXCEPT
                                  ![k].properties[obs'.name] = obs'.val]
        /\ obs'.op = "let" => instances' = instances]_vars

\* C14 happens: inside a method a Let has changed the local binding of a
\* property, and the instance's property is still what it was.
C14_Witness ==
  /\ obs.op = "let" /\ obs.name = "p"
  /\ Len(stack) > 0 /\ Top.kind = "method"
  /\ envs[Top.benv].vars["p"] = obs.val
  /\ instances[Top.i].properties["p"] \notin {Absent, obs.val}

\* C16: try/handle and attempt/rescue both run their protected body in a
\* fresh child scope of the current scope; on an error the message is bound
\* to the error variable in a fresh handler scope only, every older scope
\* keeping what it held under that name.
ProtectedKinds == {"try", "attempt"}
HandlerKinds == {"handle", "rescue"}

FreshChild(fr) ==
  /\ fr.benv # fr.env
  /\ fr.benv \in 1..Len(envs)
  /\ envs[fr.benv].parent = fr.env

C16_ProtectedScopes ==
  /\ [](\A j \in 1..Len(stack) :
          stack[j].kind \in ProtectedKinds \cup HandlerKinds
            => FreshChild(stack[j]))
  /\ [][(obs'.op = "protected" /\ obs'.n = 1 /\ exc.k # "none") =>
          /\ Len(stack') > 0
          /\ stack'[Len(stack')].kind \in HandlerKinds
          /\ stack'[Len(stack')].benv = Len(envs')
          /\ envs'[Len(envs')].vars["x"] = Text("message")
          /\ \A i \in 1..(Len(envs') - 1) : envs'[i] = envs[i]]_vars

\* C17: an async call starts one worker, hands the caller a task handle
\* and leaves the caller running; a wait on a handle happens only once the
\* worker has finished and yields thread_result or raises thread_error; an
\* error of a worker reaches the main thread through such a wait only.
SpawnStep == obs'.op \in {"call", "spawn"} /\ left' < left /\ exc'.k = "none"
                /\ obs'.val # Absent /\ NodeIsAsync(obs'.val)

WaitStep == obs'.op = "wait" /\ left' < left /\ obs'.val.t = "task"

C17_SpawnAndWait ==
  /\ [][SpawnStep =>
          /\ Len(threads') = Len(threads) + 1
          /\ threads'[Len(threads')].state = "started"
          /\ SubSeq(threads', 1, Len(threads)) = threads
          /\ ret' = Task(Len(threads'))
          /\ Len(stack') = Len(stack)
          /\ stack'[Len(stack')].kind = Top.kind
          /\ outcome' = "running"]_vars
  /\ [][WaitStep =>
          /\ obs'.val.n \in 1..Len(threads)
          /\ threads[obs'.val.n].state = "finished"
          /\ IF threads[obs'.val.n].error # NoExc
             THEN exc' = threads[obs'.val.n].error
             ELSE /\ exc'.k = "none"
                  /\ ret' = threads[obs'.val.n].result
                  /\ Get(envs', Cur, "g") = threads[obs'.val.n].result]_vars
  /\ [][(exc' # exc /\ exc'.v = Text("worker")) =>
          /\ WaitStep
          /\ threads[obs'.val.n].error = exc']_vars
  /\ [](outcome = "runtime_error" /\ exc.v = Text("worker")
          => \E k \in 1..Len(threads) : threads[k].error = exc)

C17_Witness ==
  /\ obs.op = "wait" /\ obs.val.t = "task"
  /\ exc.k = "none"
  /\ ret.t = "num"
  /\ \E k \in 1..Len(threads) :
       k # obs.val.n /\ threads[k].error # NoExc /\ outcome = "running"

\* C18: calling a method that the program defines with `Define an async
\* method` starts a worker and returns a task handle at once instead of
\* running the method body in the caller.
DeclaredAsync(m) == m = "am"

C18_AsyncMethodReturnsHandle ==
  (obs.op = "callmethod" /\ DeclaredAsync(obs.name) /\ obs.val # Absent
     /\ exc.k = "none")
    => (ret.t = "task" /\ Len(stack) > 0 /\ Top.kind # "method")

\* C19: waiting for a value that is no task handle raises an error of the
\* interpreter's RuntimeError kind, whatever the kind of the value.
C19_WaitOnNonTaskIsRuntimeError ==
  (obs.op = "wait" /\ obs.val.t # "task") => exc.k = "Error"

\* C20: a worker's assignment stores the value it read plus one whatever
\* the variable holds by then, so two workers that read the same value
\* lose one increment.
C20_UnsynchronizedUpdate ==
  [][\A k \in 1..Len(threads) :
       threads'[k].left < threads[k].left =>
         /\ threads[k].tmp.t = "num"
         /\ envs'[1].vars["x"] = Num(threads[k].tmp.n + 1)]_vars

C20_Witness ==
  /\ Len(threads) = 2
  /\ \A k \in 1..2 : /\ threads[k].state = "finished"
                     /\ threads[k].left = MaxWorkerStmts - 1
                     /\ threads[k].error = NoExc
  /\ threads[1].tmp = threads[2].tmp
  /\ threads[1].tmp.t = "num"
  /\ envs[1].vars["x"] = Num(threads[1].tmp.n + 1)

\* C21: a Stop or Skip that reaches the top level is reported as a usage
\* error at both entry points: run_source ends with the usage message, and
\* run_interactive prints it and returns to its prompt.
C21_SignalsReportedEverywhere ==
  /\ (obs.op = "end" /\ exc.k \in {"Stop", "Skip"})
       => outcome \in {"stop_usage", "skip_usage"}
  /\ (obs.op = "entrycatch" /\ obs.names \subseteq {"Stop", "Skip"})
       => outcome = "prompt"

\* C22: a unit with a lexer or parse error never runs: loading it leaves
\* the scopes and the function, class and method tables as they were, and
\* whatever unit is executing has no unreadable or ungrammatical sentence.
BadSentences == {Text("badchar"), Text("badgrammar")}

C22_SyntaxErrorRunsNothing ==
  /\ [](\A j \in 1..Len(stack) :
          stack[j].kind \in UnitKinds =>
            /\ \A i \in 1..Len(stack[j].visited) :
                 stack[j].visited[i] \notin BadSentences
            /\ Len(stack[j].items) = Len(stack[j].visited))
  /\ [][obs'.op = "syntax" =>
          /\ UNCHANGED <<envs, functions, oop, left, exc, stack>>
          /\ outcome' # "running"]_vars
  /\ [][(obs'.op \in {"let", "define", "stop", "skip", "throw"}) =>
          /\ Len(stack) > 0
          /\ Top.visited[UnitPc] = Text(obs'.op)]_vars

C22_Witness ==
  /\ obs.op = "syntax" /\ obs.name = "entry" /\ obs.n = MaxUnit
  /\ outcome = "prompt"
  /\ envs[1].vars["x"] # Absent
  /\ "f" \in functions

\* C23: a runtime error in flight carries one call-site entry for every
\* call activation it has unwound through since the statement failed,
\* innermost first, whatever blocks lie between the activations; so it
\* does when an attempt catches it and when it reaches the top level.
Unwound(e, S) == SelectSeq(e.from, LAMBDA site : site.at > Len(S))

C23_OneEntryPerFrame ==
  exc.k = "Error" => exc.ps = Unwound(exc, stack)

\* C24: divided by and modulo with a right operand equal to zero raise a
\* RuntimeError_, whatever the left operand, and the failing statement
\* leaves every scope and every object as it was.
OpStep == obs'.op = "letop" /\ left' < left

ZeroOperand(v) == v.t \in {"num", "float", "bool"} /\ v.n = 0

C24_ZeroDivisorRaises ==
  [][(OpStep /\ obs'.name \in {"divided_by", "modulo"}
        /\ ZeroOperand(obs'.frame.items[2]))
       => /\ exc'.k = "Error"
          /\ UNCHANGED <<envs, functions, oop, lst, ret>>]_vars

C24_Witness ==
  /\ obs.op = "letop" /\ obs.name = "modulo"
  /\ obs.frame.items[2] = Float(0, 1)
  /\ obs.frame.items[1].t = "float"
  /\ exc.k = "Error"
  /\ envs[1].vars["x"] = Float(0, 1)

\* C25: an arithmetic result that is mathematically whole is an int, for
\* every operator, and a text joined from such a result by plus shows no
\* decimal point.
Whole(v) == v.t \in {"num", "float"} /\ Denom(v) = 1

C25_WholeResultsAreInts ==
  (obs.op = "letop" /\ exc.k = "none")
    => /\ Whole(obs.val) => obs.val.t = "num"
       /\ (obs.val.t = "text" /\ \E j \in 1..2 : Whole(obs.frame.items[j]))
            => obs.val.s \notin {"n.n a", "a n.n"}

\* C26: an arithmetic operator whose operands are not both numbers raises
\* a RuntimeError_, except plus on two lists or with a text operand.
C26_NonNumericOperandsRaise ==
  (obs.op = "letop"
     /\ ~(IsNum(obs.frame.items[1]) /\ IsNum(obs.frame.items[2]))
     /\ ~(obs.name = "plus"
            /\ \/ obs.frame.items[1].t = "list" /\ obs.frame.items[2].t = "list"
               \/ obs.frame.items[1].t = "text"
               \/ obs.frame.items[2].t = "text"))
    => exc.k = "Error"

\* C27: a walk over the parent links that stands on a class of a cycle
\* never ends (instantiation always; method lookup when no class of the
\* cycle defines the method), and a walk on a chain without a cycle ends.
OnCycle(C, c) ==
  \E k \in 1..Cardinality(ClassNames) : Up(C, c, k) = c /\ C[c].defined

Ancestors(C, c) == {Up(C, c, k) : k \in 0..Cardinality(ClassNames)} \ {""}

Acyclic(C, c) == \A a \in Ancestors(C, c) : ~OnCycle(C, a)

InWalk(kind) == Len(stack) > 0 /\ Top.kind = kind /\ outcome = "running"

StaysIn(kind) ==
  /\ Len(stack') = Len(stack)
  /\ stack'[Len(stack')].kind = kind
  /\ exc'.k = "none"
  /\ OnCycle(classes', stack'[Len(stack')].callee.s)

C27_CyclesNeverEndChainsDo ==
  /\ [][(InWalk("new") /\ OnCycle(classes, Top.callee.s)) => StaysIn("new")]_vars
  /\ [][(InWalk("lookup") /\ OnCycle(classes, Top.callee.s)
           /\ \A a \in Ancestors(classes, Top.callee.s) : Top.var \notin methods[a])
          => StaysIn("lookup")]_vars
  /\ \A kind \in WalkKinds :
       (InWalk(kind) /\ Acyclic(classes, Top.callee.s)) ~> ~InWalk(kind)

C27_Witness ==
  /\ InWalk("lookup")
  /\ OnCycle(classes, Top.callee.s)
  /\ Top.callee.s # instances[Top.i].class_name
  /\ obs.op = "lookupstep"

\* C28: outside a string literal, the three periods of an ellipsis and the
\* characters of an inline comment, from --- or // to the end of its line,
\* are part of no token, also at the very end of the input; a token stream
\* that is returned ends with its only end marker.
RECURSIVE ModeAt(_, _)
ModeAt(src, k) ==
  IF k = 1 THEN "code"
  ELSE LET m == ModeAt(src, k - 1)
       IN CASE m = "string" -> IF Is(src, k - 1, "q") THEN "code" ELSE "string"
            [] m = "comment" -> IF Is(src, k - 1, "n") THEN "code" ELSE "comment"
            [] OTHER ->
                 IF Is(src, k - 1, "q") THEN "string"
                 ELSE IF \/ Is(src, k - 1, "-") /\ Is(src, k, "-") /\ Is(src, k + 1, "-")
                         \/ Is(src, k - 1, "/") /\ Is(src, k, "/")
                 THEN "comment"
                 ELSE "code"

\* The run of periods around position k has exactly three of them
InEllipsis(src, k) ==
  /\ Is(src, k, ".")
  /\ ModeAt(src, k) = "code"
  /\ \E a \in 1..k : \E b \in k..Len(src) :
       /\ b - a = 2
       /\ \A j \in a..b : Is(src, j, ".")
       /\ ~Is(src, a - 1, ".")
       /\ ~Is(src, b + 1, ".")

InComment(src, k) ==
  \/ ModeAt(src, k) = "comment" /\ ~Is(src, k, "n")
  \/ /\ ModeAt(src, k) = "code"
     /\ \/ Is(src, k, "-") /\ Is(src, k + 1, "-") /\ Is(src, k + 2, "-")
        \/ Is(src, k, "/") /\ Is(src, k + 1, "/")

LexFrames == {j \in 1..Len(stack) : stack[j].kind = "lexer"}

CallsOn(S) == Len(CallSites(S, Len(S)))
Escaping ==
  /\ exc.k \in {"Stop", "Skip"}
  /\ exc.from # <<>>
  /\ CallsOn(stack) < Len(exc.from) \/ NearestLoop(stack) = 0

\* C29: a Stop or Skip raised in a function or method body outside any loop
\* of that body leaves the call with no call-site entry added, passes every
\* construct that is not a loop, and is consumed by the nearest loop that
\* encloses the call site (Stop ends that loop, Skip its iteration); with no
\* loop around any caller it arrives at the top level.
C29_CallsPassLoopControl ==
  [][Escaping =>
       IF Top.kind \in LoopKinds
       THEN /\ exc' = NoExc
            /\ stack' = IF exc.k = "Stop" THEN Pop(stack)
                        ELSE [stack EXCEPT ![Len(stack)].benv = 0]
       ELSE IF Top.kind = "top"
       THEN stack' = <<>> /\ outcome' \in {"stop_usage", "skip_usage"}
       ELSE exc' = exc /\ stack' = Pop(stack)]_vars

\* The scope a chain assignment of name from scope i is to reach: the
\* nearest scope of the chain that holds the name, else the root
BindTarget(E, i, name) ==
  LET holders == {j \in Chain(E, i) : E[j].vars[name] # Absent}
  IN IF holders = {}
     THEN CHOOSE j \in Chain(E, i) : E[j].parent = 0
     ELSE CHOOSE j \in holders : holders \subseteq Chain(E, j)

\* The loop on top of the stack begins an iteration in this step
Binds(kind) ==
  /\ outcome = "running" /\ exc.k = "none" /\ Len(stack) > 0
  /\ Top.kind = kind /\ Top.benv = 0
  /\ Len(stack') = Len(stack)
  /\ stack'[Len(stack)].i = Top.i + 1

\* C30: a for-each loop binds its variable by chain assignment: the loop's
\* own scope never holds it, each element is written to the nearest
\* enclosing scope that holds the name, else to the root scope, no other
\* binding changes, and the binding is still there when the loop is left;
\* a numeric range loop binds its variable in the fresh scope of the
\* iteration alone and changes no scope that existed.
C30_ForEachAssignsRangeBindsLocally ==
  [][/\ \A j \in 1..Len(stack) :
          stack[j].kind = "foreach" => envs[stack[j].env].vars[stack[j].var] = Absent
     /\ Binds("foreach") =>
          LET target == BindTarget(envs, Top.env, Top.var)
          IN /\ target # Top.env
             /\ Len(envs') = Len(envs) + 1
             /\ envs'[target].vars[Top.var] = Num(Top.items[Top.i + 1])
             /\ \A j \in 1..Len(envs) : \A nm \in Names :
                  (j # target \/ nm # Top.var) => envs'[j].vars[nm] = envs[j].vars[nm]
             /\ envs'[Len(envs')].vars = NoVars
     /\ (Len(stack) > 0 /\ Top.kind = "foreach" /\ exc.k = "none" /\ stack' = Pop(stack))
          => Get(envs', envs[Top.env].parent, Top.var) = Get(envs, Top.env, Top.var)
     /\ Binds("range") =>
          /\ Len(envs') = Len(envs) + 1
          /\ SubSeq(envs', 1, Len(envs)) = envs
          /\ stack'[Len(stack)].benv = Len(envs')
          /\ envs'[Len(envs')].parent = Top.env
          /\ envs'[Len(envs')].vars =
               [NoVars EXCEPT ![Top.var] = Num(Top.items[Top.i + 1])]]_vars

\* A range loop over x iterating inside a for-each loop over x: the
\* for-each element is bound in the root scope, not in the loop's scope,
\* and the range value in the iteration's scope alone.
C30_Witness ==
  /\ Len(stack) = 3 /\ exc.k = "none"
  /\ stack[2].kind = "foreach" /\ stack[2].var = "x" /\ stack[2].i = 1
  /\ Top.kind = "range" /\ Top.var = "x" /\ Top.benv # 0
  /\ envs[stack[2].env].vars["x"] = Absent
  /\ envs[1].vars["x"] = Num(stack[2].items[1])
  /\ Get(envs, Top.env, "x") = Num(stack[2].items[1])
  /\ envs[Top.benv].vars["x"] = Num(Top.items[Top.i])
  /\ Top.items[Top.i] # stack[2].items[1]

====
